---- MODULE Spec2Model ----
(***************************************************************************)
(* A model of the ValueScript toolchain core: the bytecode decoder, the    *)
(* bytecode stack frame, the frame-stack driver of the virtual machine,    *)
(* copy-on-write containers, and the capture / TDZ analysis of the         *)
(* compiler.                                                               *)
(***************************************************************************)
EXTENDS Integers, Sequences, FiniteSets, TLC

VARIABLES
  bytecode,     \* Bytecode: the flat byte array (Rust offsets are 0-based)
  cache,        \* Bytecode.cache: offset -> decoded Val, as a set of <<offset, Val>>
  stack,        \* VirtualMachine.stack: frames, the first frame at index 1, the top last
  status,       \* "idle" | "running" | "done" | "err" | "panic"
  result,       \* the value run returned (Ok) or threw (Err)
  ev,           \* the last step taken: what was decoded and the frames before it
  runNo,        \* how many times run was called on this VirtualMachine
  firstResult,  \* <<status, result>> of the first run
  args,         \* the `this` and params every run is given
  dec,          \* a stand-alone BytecodeDecoder (decoder specification)
  cow,          \* registers over a reference-counted heap (copy-on-write specification)
  cap,          \* populate_block_scope's capture computation
  tdz,          \* identifier / capturing_fn_ref diagnostics
  drv,          \* a front end: compile, the diagnostics gate, assemble, run
  cmp,          \* a FunctionCompiler compiling statements (loop_labels)
  low           \* an ExpressionCompiler lowering one expression, and the lines run

vmVars == <<bytecode, cache, stack, status, result, ev, runNo, firstResult, args>>
vars ==
  <<bytecode, cache, stack, status, result, ev, runNo, firstResult, args, dec, cow, cap, tdz,
    drv, cmp, low>>

Idle == <<>>

\* Option<T>: None is the empty tuple, Some(x) the one-element tuple.
None == <<>>
Some(x) == <<x>>
IsSome(o) == o # <<>>
Unwrap(o) == o[1]

-----------------------------------------------------------------------------
(* Bounds of the model *)

\* How many pointers a single decode may follow, one inside the other, before the
\* model reports the recursion as unbounded
MaxDecodeDepth == 4

\* How many times run is called on one VirtualMachine
MaxRuns == 2

\* How many array cells the reference-counted heap has room for
MaxCells == 7

\* How many mutating instructions follow the mov of the copy-on-write specification
MaxMutations == 4
MaxDecodes == 3
MaxYields == 3
MaxPos == 3
MaxRefs == 2

\* How many diagnostics a compilation gives, and how many files bench runs
MaxDiagnostics == 2
MaxFiles == 2

\* How many members deep the target of an assignment is
MaxPath == 2

\* How many results an iterator gives before it is exhausted
MaxResults == 3

\* How deep the expressions given to ExpressionCompiler::compile nest
MaxDepth == 2

\* How deep the statements of a compiled function body nest
MaxNest == 2

-----------------------------------------------------------------------------
(* Val: the tagged value variants *)

VVoid == <<"Void">>
VUndefined == <<"Undefined">>
VNull == <<"Null">>
VBool(b) == <<"Bool", b>>
VNumber(n) == <<"Number", n>>
VNumberBits(bytes) == <<"NumberBits", bytes>>
VBigInt(sign, bytes) == <<"BigInt", sign, bytes>>
VString(s) == <<"String", s>>
VArray(elements) == <<"Array", elements>>
VObject(string_map, symbol_map, prototype) == <<"Object", string_map, symbol_map, prototype>>
VFunction(is_generator, register_count, parameter_count, start, binds) ==
  <<"Function", is_generator, register_count, parameter_count, start, binds>>
VClass(constructor, instance_prototype) == <<"Class", constructor, instance_prototype>>
VStatic(index) == <<"Static", index>>

Tag(v) == v[1]

-----------------------------------------------------------------------------
(* BytecodeType *)

BtEnd == 0
BtVoid == 1
BtUndefined == 2
BtNull == 3
BtFalse == 4
BtTrue == 5
BtSignedByte == 6
BtNumber == 7
BtString == 8
BtArray == 9
BtObject == 10
BtFunction == 11
BtPointer == 13
BtRegister == 14
BtBuiltin == 16
BtClass == 17
BtBigInt == 19
BtGeneratorFunction == 20
BtUnrecognized == 255

IgnoreRegister == 255
BuiltinCount == 4

KnownTypeBytes ==
  {BtEnd, BtVoid, BtUndefined, BtNull, BtFalse, BtTrue, BtSignedByte, BtNumber, BtString,
   BtArray, BtObject, BtFunction, BtPointer, BtRegister, BtBuiltin, BtClass, BtBigInt,
   BtGeneratorFunction}

\* BytecodeType::from_byte
FromByte(byte) == IF byte \in KnownTypeBytes THEN byte ELSE BtUnrecognized

-----------------------------------------------------------------------------
(* BytecodeDecoder.  Every decode_* takes the byte array, a position, the   *)
(* registers and the shared cache and gives back a record                  *)
(*   [panic, val, pos, cache]                                              *)
(* where panic is "" when the call returned and otherwise names the Rust   *)
(* panic that ended it.                                                    *)

Ret(v, p, c) == [panic |-> "", val |-> v, pos |-> p, cache |-> c]
Panic(why, p, c) == [panic |-> why, val |-> VVoid, pos |-> p, cache |-> c]

InBytes(bc, pos) == pos >= 0 /\ pos < Len(bc)
ByteAt(bc, pos) == bc[pos + 1]
Slice(bc, from, to) == [i \in 1..(to - from) |-> bc[from + i]]

\* peek_type
PeekType(bc, pos) == FromByte(ByteAt(bc, pos))

\* decode_signed_byte: the byte read as i8
SignedByteOf(byte) == IF byte < 128 THEN byte ELSE byte - 256

\* decode_pos
DecodePos(bc, pos) ==
  IF InBytes(bc, pos) /\ InBytes(bc, pos + 1)
  THEN Ret(ByteAt(bc, pos) + 256 * ByteAt(bc, pos + 1), pos + 2, {})
  ELSE Panic("index out of bounds", pos, {})

\* decode_register_index: None for 0xff
DecodeRegisterIndex(bc, pos) ==
  IF ~InBytes(bc, pos) THEN Panic("index out of bounds", pos, {})
  ELSE IF ByteAt(bc, pos) = IgnoreRegister THEN Ret(None, pos + 1, {})
  ELSE Ret(Some(ByteAt(bc, pos)), pos + 1, {})

\* decode_varsize_uint
RECURSIVE VarsizeFrom(_, _, _, _)
VarsizeFrom(bc, pos, res, mul) ==
  IF ~InBytes(bc, pos) THEN Panic("index out of bounds", pos, {})
  ELSE LET byte == ByteAt(bc, pos)
           res2 == res + mul * (byte % 128)
       IN IF byte < 128 THEN Ret(res2, pos + 1, {})
          ELSE VarsizeFrom(bc, pos + 1, res2, mul * 128)

DecodeVarsizeUint(bc, pos) == VarsizeFrom(bc, pos, 0, 1)

\* String::from_utf8_lossy on the bytes of a string: ASCII bytes are kept, a byte
\* that is not valid on its own becomes U+FFFD
Utf8Lossy(bytes) == [i \in 1..Len(bytes) |-> IF bytes[i] < 128 THEN bytes[i] ELSE 65533]

\* decode_string
DecodeString(bc, pos) ==
  LET l == DecodeVarsizeUint(bc, pos)
  IN IF l.panic # "" THEN l
     ELSE IF l.pos + l.val > Len(bc) THEN Panic("index out of bounds", l.pos, {})
     ELSE Ret(Utf8Lossy(Slice(bc, l.pos, l.pos + l.val)), l.pos + l.val, {})

\* decode_bigint
DecodeBigint(bc, pos) ==
  IF ~InBytes(bc, pos) THEN Panic("index out of bounds", pos, {})
  ELSE IF ByteAt(bc, pos) > 2 THEN Panic("Invalid sign for bigint", pos, {})
  ELSE LET l == DecodeVarsizeUint(bc, pos + 1)
       IN IF l.panic # "" THEN l
          ELSE IF l.pos + l.val > Len(bc) THEN Panic("index out of bounds", l.pos, {})
          ELSE Ret(VBigInt(ByteAt(bc, pos), Slice(bc, l.pos, l.pos + l.val)), l.pos + l.val, {})

\* decode_number: the eight bytes of an f64, kept as its bits
DecodeNumber(bc, pos) ==
  IF pos + 8 > Len(bc) THEN Panic("index out of bounds", pos, {})
  ELSE Ret(VNumberBits(Slice(bc, pos, pos + 8)), pos + 8, {})

\* decode_function
DecodeFunction(bc, pos, is_generator) ==
  IF ~(InBytes(bc, pos) /\ InBytes(bc, pos + 1)) THEN Panic("index out of bounds", pos, {})
  ELSE Ret(VFunction(is_generator, ByteAt(bc, pos), ByteAt(bc, pos + 1), pos + 2, <<>>),
           pos + 2, {})

\* The pointer cache, a map offset -> Val
CacheHas(c, pos) == \E e \in c : e[1] = pos
CacheGet(c, pos) == (CHOOSE e \in c : e[1] = pos)[2]
\* The mutant of HashMap::insert: nothing is stored
CacheInsertNot(c, pos, v) == c

CacheInsert(c, pos, v) == {e \in c : e[1] # pos} \cup {<<pos, v>>}

\* Byte-wise order of two strings, as BTreeMap<String, _> orders its keys
RECURSIVE StrLess(_, _)
StrLess(a, b) ==
  IF Len(b) = 0 THEN FALSE
  ELSE IF Len(a) = 0 THEN TRUE
  ELSE IF a[1] # b[1] THEN a[1] < b[1]
  ELSE StrLess(Tail(a), Tail(b))

\* The mutant of the map: a new key goes to the end, a known key keeps its place
RECURSIVE MapInsertLast(_, _, _)
MapInsertLast(m, k, v) ==
  IF Len(m) = 0 THEN <<<<k, v>>>>
  ELSE IF m[1][1] = k THEN <<<<k, v>>>> \o Tail(m)
  ELSE <<m[1]>> \o MapInsertLast(Tail(m), k, v)

\* BTreeMap::insert on a map kept as the sequence of its <<key, value>> pairs in key order
RECURSIVE MapInsert(_, _, _)
MapInsert(m, k, v) ==
  IF Len(m) = 0 THEN <<<<k, v>>>>
  ELSE IF m[1][1] = k THEN <<<<k, v>>>> \o Tail(m)
  ELSE IF StrLess(k, m[1][1]) THEN <<<<k, v>>>> \o m
  ELSE <<m[1]>> \o MapInsert(Tail(m), k, v)

\* The decimal digits of a natural number, as the bytes of a string
RECURSIVE Digits(_)
Digits(n) == IF n < 10 THEN <<48 + n>> ELSE Digits(n \div 10) \o <<48 + (n % 10)>>

\* Val::to_string for an object key that is not a string
KeyToString(v) ==
  CASE Tag(v) = "String" -> v[2]
    [] Tag(v) = "Number" -> IF v[2] < 0 THEN <<45>> \o Digits(-v[2]) ELSE Digits(v[2])
    [] Tag(v) = "Bool" -> IF v[2] THEN <<116, 114, 117, 101>> ELSE <<102, 97, 108, 115, 101>>
    [] Tag(v) = "Null" -> <<110, 117, 108, 108>>
    [] OTHER -> <<117, 110, 100, 101, 102, 105, 110, 101, 100>>

\* let v = e; k(v): the value of e is computed once and named in k
Bind(v, K(_)) == K(v)

RECURSIVE DecodeVal(_, _, _, _, _)
RECURSIVE DecodeVecVal(_, _, _, _, _, _)
RECURSIVE DecodeObjectEntries(_, _, _, _, _, _)
RECURSIVE DecodePointer(_, _, _, _, _)

\* The backward check of decode_pointer: the tags a pointer may point back to
BackwardOk(bc, pos) ==
  PeekType(bc, pos) \in {BtFunction, BtGeneratorFunction, BtClass, BtUnrecognized}

\* The mutant of decode_pointer for the cache claims: a hit returns the cached value
\* but the entry is overwritten with a fresh decode
DecodePointerRefresh(bc, pos0, regs, c, fuel) ==
  Bind(DecodePos(bc, pos0), LAMBDA p :
    IF p.panic # "" THEN Panic(p.panic, pos0, c)
    ELSE IF p.val < pos0 /\ ~BackwardOk(bc, p.val)
    THEN Panic("Invalid pointer that points backwards", p.pos, c)
    ELSE Bind(DecodeVal(bc, p.val, regs, c, fuel - 1), LAMBDA d :
           IF d.panic # "" THEN Panic(d.panic, p.pos, d.cache)
           ELSE Ret(IF CacheHas(c, p.val) THEN CacheGet(c, p.val) ELSE d.val,
                    p.pos, CacheInsert(d.cache, p.val, d.val))))

\* The mutant of decode_pointer for the pointer-safety claim: the backward check
\* lets an Array target through as well
DecodePointerLax(bc, pos0, regs, c, fuel) ==
  Bind(DecodePos(bc, pos0), LAMBDA p :
    IF p.panic # "" THEN Panic(p.panic, pos0, c)
    ELSE IF p.val < pos0 /\ ~BackwardOk(bc, p.val) /\ PeekType(bc, p.val) # BtArray
    THEN Panic("Invalid pointer that points backwards", p.pos, c)
    ELSE IF CacheHas(c, p.val) THEN Ret(CacheGet(c, p.val), p.pos, c)
    ELSE Bind(DecodeVal(bc, p.val, regs, c, fuel - 1), LAMBDA d :
           IF d.panic # "" THEN Panic(d.panic, p.pos, d.cache)
           ELSE Ret(d.val, p.pos, CacheInsert(d.cache, p.val, d.val))))

\* decode_pointer: pos0 is the decoder's position after the Pointer tag (from_pos)
DecodePointer(bc, pos0, regs, c, fuel) ==
  Bind(DecodePos(bc, pos0), LAMBDA p :
    IF p.panic # "" THEN Panic(p.panic, pos0, c)
    ELSE IF p.val < pos0 /\ ~BackwardOk(bc, p.val)
    THEN Panic("Invalid pointer that points backwards", p.pos, c)
    ELSE IF CacheHas(c, p.val) THEN Ret(CacheGet(c, p.val), p.pos, c)
    ELSE Bind(DecodeVal(bc, p.val, regs, c, fuel - 1), LAMBDA d :
           IF d.panic # "" THEN Panic(d.panic, p.pos, d.cache)
           ELSE Ret(d.val, p.pos, CacheInsert(d.cache, p.val, d.val))))

\* decode_vec_val: values up to the End tag; acc holds the values decoded so far
DecodeVecVal(bc, pos, regs, c, fuel, acc) ==
  IF ~InBytes(bc, pos) THEN Panic("index out of bounds", pos, c)
  ELSE IF PeekType(bc, pos) = BtEnd THEN Ret(acc, pos + 1, c)
  ELSE Bind(DecodeVal(bc, pos, regs, c, fuel), LAMBDA d :
         IF d.panic # "" THEN d
         ELSE DecodeVecVal(bc, d.pos, regs, d.cache, fuel, Append(acc, d.val)))

\* The Object arm of decode_vallish: key/value pairs up to the End tag, each pair
\* inserted into string_map; acc is the map so far
DecodeObjectEntries(bc, pos, regs, c, fuel, acc) ==
  IF ~InBytes(bc, pos) THEN Panic("index out of bounds", pos, c)
  ELSE IF PeekType(bc, pos) = BtEnd THEN Ret(VObject(acc, <<>>, None), pos + 1, c)
  ELSE Bind(DecodeVal(bc, pos, regs, c, fuel), LAMBDA k :
         IF k.panic # "" THEN k
         ELSE Bind(DecodeVal(bc, k.pos, regs, k.cache, fuel), LAMBDA v :
                IF v.panic # "" THEN v
                ELSE DecodeObjectEntries(bc, v.pos, regs, v.cache, fuel,
                                         MapInsert(acc, KeyToString(k.val), v.val))))

\* The mutant of the Register arm: the register is read as it is
DecodeRegisterRaw(bc, at, regs, c) ==
  Bind(DecodeRegisterIndex(bc, at), LAMBDA r :
    IF r.panic # "" THEN Panic(r.panic, r.pos, c)
    ELSE IF ~IsSome(r.val) THEN Panic("unwrap on None", r.pos, c)
    ELSE IF Unwrap(r.val) >= Len(regs) THEN Panic("index out of bounds", r.pos, c)
    ELSE Ret(regs[Unwrap(r.val) + 1], r.pos, c))

\* The Register arm of decode_vallish: a Void register reads as Undefined
DecodeRegister(bc, at, regs, c) ==
  Bind(DecodeRegisterIndex(bc, at), LAMBDA r :
    IF r.panic # "" THEN Panic(r.panic, r.pos, c)
    ELSE IF ~IsSome(r.val) THEN Panic("unwrap on None", r.pos, c)
    ELSE IF Unwrap(r.val) >= Len(regs) THEN Panic("index out of bounds", r.pos, c)
    ELSE IF regs[Unwrap(r.val) + 1] = VVoid THEN Ret(VUndefined, r.pos, c)
    ELSE Ret(regs[Unwrap(r.val) + 1], r.pos, c))

\* decode_vallish followed by get_own (decode_val)
DecodeVal(bc, pos, regs, c, fuel) ==
  IF fuel <= 0 THEN Panic("unbounded recursion", pos, c)
  ELSE IF ~InBytes(bc, pos) THEN Panic("index out of bounds", pos, c)
  ELSE LET t == PeekType(bc, pos)
           at == pos + 1
           With(r) == [r EXCEPT !.cache = c]
       IN CASE t = BtEnd -> Panic("Cannot decode end", at, c)
            [] t = BtVoid -> Ret(VVoid, at, c)
            [] t = BtUndefined -> Ret(VUndefined, at, c)
            [] t = BtNull -> Ret(VNull, at, c)
            [] t = BtFalse -> Ret(VBool(FALSE), at, c)
            [] t = BtTrue -> Ret(VBool(TRUE), at, c)
            [] t = BtSignedByte ->
                 IF InBytes(bc, at) THEN Ret(VNumber(SignedByteOf(ByteAt(bc, at))), at + 1, c)
                 ELSE Panic("index out of bounds", at, c)
            [] t = BtNumber -> With(DecodeNumber(bc, at))
            [] t = BtString ->
                 Bind(DecodeString(bc, at), LAMBDA s :
                   IF s.panic # "" THEN With(s) ELSE Ret(VString(s.val), s.pos, c))
            [] t = BtArray ->
                 Bind(DecodeVecVal(bc, at, regs, c, fuel, <<>>), LAMBDA a :
                   IF a.panic # "" THEN a ELSE Ret(VArray(a.val), a.pos, a.cache))
            [] t = BtObject -> DecodeObjectEntries(bc, at, regs, c, fuel, <<>>)
            [] t = BtFunction -> With(DecodeFunction(bc, at, FALSE))
            [] t = BtPointer -> DecodePointer(bc, at, regs, c, fuel)
            [] t = BtRegister -> DecodeRegister(bc, at, regs, c)
            [] t = BtBuiltin ->
                 Bind(DecodeVarsizeUint(bc, at), LAMBDA i :
                   IF i.panic # "" THEN With(i)
                   ELSE IF i.val >= BuiltinCount THEN Panic("index out of bounds", i.pos, c)
                   ELSE Ret(VStatic(i.val), i.pos, c))
            [] t = BtClass ->
                 Bind(DecodeVal(bc, at, regs, c, fuel), LAMBDA k :
                   IF k.panic # "" THEN k
                   ELSE Bind(DecodeVal(bc, k.pos, regs, k.cache, fuel), LAMBDA ip :
                          IF ip.panic # "" THEN ip
                          ELSE Ret(VClass(k.val, ip.val), ip.pos, ip.cache)))
            [] t = BtBigInt -> With(DecodeBigint(bc, at))
            [] t = BtGeneratorFunction -> With(DecodeFunction(bc, at, TRUE))
            [] OTHER -> Panic("Unrecognized bytecode type", at, c)

-----------------------------------------------------------------------------
(* InstructionByte *)

End == 0
Mov == 1
OpInc == 2
OpDec == 3
OpPlus == 4
OpNot == 16
Call == 33
Apply == 34
OpBind == 36
Sub == 37
SubMov == 38
SubCall == 39
Jmp == 40
New == 45
JmpIf == 41
Throw == 46
SetCatch == 49
UnsetCatch == 50
ConstSubCall == 51
RequireMutableThis == 52
ThisSubCall == 53
UnpackIterRes == 55
Yield == 57
YieldStar == 58

-----------------------------------------------------------------------------
(* BytecodeStackFrame *)

\* The frame a Function value makes when it is called (VsFunction::make_frame):
\* register_count registers, all Void, the binds from register 2 on; the caller's
\* parameters follow the binds
MakeFrame(fn) ==
  LET register_count == fn[3]
      parameter_count == fn[4]
      binds == fn[6]
  IN [pos |-> fn[5],
      registers |-> [i \in 1..register_count |->
                       IF i > 2 /\ i - 2 <= Len(binds) THEN binds[i - 2] ELSE VVoid],
      const_this |-> TRUE,
      param_start |-> 2 + Len(binds),
      param_end |-> 2 + parameter_count,
      this_target |-> None,
      return_target |-> None,
      catch_setting |-> None]

\* Val::load_function
LoadFunction(v) ==
  CASE Tag(v) = "Function" -> <<"StackFrame", MakeFrame(v)>>
    [] Tag(v) = "Static" -> <<"NativeFunction", v[2]>>
    [] OTHER -> <<"NotAFunction">>

\* "...".to_type_error()
TypeError(message) == <<"TypeError", message>>

\* write_this
WriteThis(f, const_, this) ==
  [f EXCEPT !.registers[2] = this, !.const_this = const_]

\* write_param (the functions of the model have a register for every parameter)
WriteParam(f, param) ==
  IF f.param_start < f.param_end /\ f.param_start < Len(f.registers)
  THEN [f EXCEPT !.registers[f.param_start + 1] = param, !.param_start = f.param_start + 1]
  ELSE f

RECURSIVE WriteParams(_, _)
WriteParams(f, params) ==
  IF Len(params) = 0 THEN f ELSE WriteParams(WriteParam(f, Head(params)), Tail(params))

\* What a step gives back: the frame after it, the cache after it and the
\* FrameStepResult: <<"Continue">>, <<"Pop", return_, this>>, <<"Push", frame>>,
\* <<"Yield", val>>, <<"YieldStar", val>>, <<"Err", val>>, or <<"Panic", why>> for a
\* Rust panic.
Out(f, c, out) == [f |-> f, c |-> c, out |-> out]
Continue(f, c) == Out(f, c, <<"Continue">>)
StepPanic(f, c, why) == Out(f, c, <<"Panic", why>>)

\* Writing a register by its index; an index past the vector is a Rust panic
RegOk(f, i) == i < Len(f.registers)
SetReg(f, i, v) == [f EXCEPT !.registers[i + 1] = v]
Reg(f, i) == f.registers[i + 1]

\* transfer_parameters: an inline Array is decoded value by value into write_param,
\* anything else must decode to an Array value
RECURSIVE TransferInline(_, _, _, _, _)
TransferInline(bc, pos, regs, c, nf) ==
  IF ~InBytes(bc, pos) THEN [panic |-> "index out of bounds", pos |-> pos, cache |-> c, nf |-> nf]
  ELSE IF PeekType(bc, pos) = BtEnd THEN [panic |-> "", pos |-> pos + 1, cache |-> c, nf |-> nf]
  ELSE Bind(DecodeVal(bc, pos, regs, c, MaxDecodeDepth), LAMBDA d :
         IF d.panic # "" THEN [panic |-> d.panic, pos |-> d.pos, cache |-> d.cache, nf |-> nf]
         ELSE TransferInline(bc, d.pos, regs, d.cache, WriteParam(nf, d.val)))

TransferParameters(bc, pos, regs, c, nf) ==
  IF ~InBytes(bc, pos) THEN [panic |-> "index out of bounds", pos |-> pos, cache |-> c, nf |-> nf]
  ELSE IF PeekType(bc, pos) = BtArray THEN TransferInline(bc, pos + 1, regs, c, nf)
  ELSE Bind(DecodeVal(bc, pos, regs, c, MaxDecodeDepth), LAMBDA d :
         IF d.panic # "" THEN [panic |-> d.panic, pos |-> d.pos, cache |-> d.cache, nf |-> nf]
         ELSE IF Tag(d.val) # "Array"
         THEN [panic |-> "Unexpected non-array params", pos |-> d.pos, cache |-> d.cache, nf |-> nf]
         ELSE [panic |-> "", pos |-> d.pos, cache |-> d.cache, nf |-> WriteParams(nf, d.val[2])])

\* step, End: the frame pops with its return and this registers taken
StepEnd(bc, f, c) ==
  IF Len(f.registers) < 2 THEN StepPanic(f, c, "index out of bounds")
  ELSE Out([f EXCEPT !.registers[1] = VVoid, !.registers[2] = VVoid], c,
           <<"Pop", f.registers[1], f.registers[2]>>)

\* step, Mov
StepMov(bc, f, c) ==
  Bind(DecodeVal(bc, f.pos, f.registers, c, MaxDecodeDepth), LAMBDA v :
    IF v.panic # "" THEN StepPanic(f, v.cache, v.panic)
    ELSE Bind(DecodeRegisterIndex(bc, v.pos), LAMBDA r :
           IF r.panic # "" THEN StepPanic(f, v.cache, r.panic)
           ELSE IF ~IsSome(r.val) THEN Continue([f EXCEPT !.pos = r.pos], v.cache)
           ELSE IF ~RegOk(f, Unwrap(r.val)) THEN StepPanic(f, v.cache, "index out of bounds")
           ELSE Continue(SetReg([f EXCEPT !.pos = r.pos], Unwrap(r.val), v.val), v.cache)))

\* step, Call (a bytecode function is pushed; the model has no native functions)
StepCall(bc, f, c) ==
  Bind(DecodeVal(bc, f.pos, f.registers, c, MaxDecodeDepth), LAMBDA fn :
    IF fn.panic # "" THEN StepPanic(f, fn.cache, fn.panic)
    ELSE Bind(LoadFunction(fn.val), LAMBDA lf :
      IF lf[1] = "NotAFunction"
      THEN Out([f EXCEPT !.pos = fn.pos], fn.cache, <<"Err", TypeError("fn_ is not a function")>>)
      ELSE IF lf[1] = "NativeFunction" THEN StepPanic(f, fn.cache, "native function not modelled")
      ELSE Bind(TransferParameters(bc, fn.pos, f.registers, fn.cache, lf[2]), LAMBDA tp :
        IF tp.panic # "" THEN StepPanic(f, tp.cache, tp.panic)
        ELSE Bind(DecodeRegisterIndex(bc, tp.pos), LAMBDA rt :
          IF rt.panic # "" THEN StepPanic(f, tp.cache, rt.panic)
          ELSE Out([f EXCEPT !.pos = rt.pos, !.return_target = rt.val, !.this_target = None],
                   tp.cache, <<"Push", tp.nf>>)))))

\* step, Apply: a register `this` operand is cloned into a mutable callee and
\* becomes this_target; any other operand is written as a const this
ApplyThis(bc, f, c, nf) ==
  IF ~InBytes(bc, f.pos) THEN [panic |-> "index out of bounds", f |-> f, cache |-> c, nf |-> nf]
  ELSE IF PeekType(bc, f.pos) = BtRegister
  THEN Bind(DecodeRegisterIndex(bc, f.pos + 1), LAMBDA tt :
         IF tt.panic # "" THEN [panic |-> tt.panic, f |-> f, cache |-> c, nf |-> nf]
         ELSE IF ~IsSome(tt.val)
         THEN [panic |-> "", f |-> [f EXCEPT !.pos = tt.pos, !.this_target = None], cache |-> c, nf |-> nf]
         ELSE IF ~RegOk(f, Unwrap(tt.val))
         THEN [panic |-> "index out of bounds", f |-> f, cache |-> c, nf |-> nf]
         ELSE [panic |-> "", f |-> [f EXCEPT !.pos = tt.pos, !.this_target = tt.val], cache |-> c,
               nf |-> WriteThis(nf, FALSE, Reg(f, Unwrap(tt.val)))])
  ELSE Bind(DecodeVal(bc, f.pos, f.registers, c, MaxDecodeDepth), LAMBDA d :
         IF d.panic # "" THEN [panic |-> d.panic, f |-> f, cache |-> d.cache, nf |-> nf]
         ELSE [panic |-> "", f |-> [f EXCEPT !.pos = d.pos, !.this_target = None], cache |-> d.cache,
               nf |-> WriteThis(nf, TRUE, d.val)])

StepApply(bc, f, c) ==
  Bind(DecodeVal(bc, f.pos, f.registers, c, MaxDecodeDepth), LAMBDA fn :
    IF fn.panic # "" THEN StepPanic(f, fn.cache, fn.panic)
    ELSE Bind(LoadFunction(fn.val), LAMBDA lf :
      IF lf[1] = "NotAFunction"
      THEN Out([f EXCEPT !.pos = fn.pos], fn.cache, <<"Err", TypeError("fn_ is not a function")>>)
      ELSE IF lf[1] = "NativeFunction" THEN StepPanic(f, fn.cache, "Not implemented")
      ELSE Bind(ApplyThis(bc, [f EXCEPT !.pos = fn.pos], fn.cache, lf[2]), LAMBDA th :
        IF th.panic # "" THEN StepPanic(th.f, th.cache, th.panic)
        ELSE Bind(TransferParameters(bc, th.f.pos, th.f.registers, th.cache, th.nf), LAMBDA tp :
          IF tp.panic # "" THEN StepPanic(th.f, tp.cache, tp.panic)
          ELSE Bind(DecodeRegisterIndex(bc, tp.pos), LAMBDA rt :
            IF rt.panic # "" THEN StepPanic(th.f, tp.cache, rt.panic)
            ELSE Out([th.f EXCEPT !.pos = rt.pos, !.return_target = rt.val],
                     tp.cache, <<"Push", tp.nf>>))))))

\* Val::sub on the values the programs subscript: an array element by number, an
\* entry of an object's string_map by string, Undefined when there is none
RECURSIVE MapGet(_, _)
MapGet(m, k) ==
  IF Len(m) = 0 THEN VUndefined
  ELSE IF m[1][1] = k THEN m[1][2]
  ELSE MapGet(Tail(m), k)

ValSub(v, subscript) ==
  CASE Tag(v) = "Object" /\ Tag(subscript) = "String" -> MapGet(v[2], subscript[2])
    [] Tag(v) = "Array" /\ Tag(subscript) = "Number" ->
         IF subscript[2] >= 0 /\ subscript[2] < Len(v[2]) THEN v[2][subscript[2] + 1]
         ELSE VUndefined
    [] OTHER -> VUndefined

\* operations::op_not and op_plus on the values the programs give them
IsTruthy(v) ==
  CASE Tag(v) = "Bool" -> v[2]
    [] Tag(v) = "Number" -> v[2] # 0
    [] Tag(v) \in {"Void", "Undefined", "Null"} -> FALSE
    [] OTHER -> TRUE

op_not(input) == VBool(~IsTruthy(input))

op_plus(left, right) ==
  CASE Tag(left) = "Number" /\ Tag(right) = "Number" -> VNumber(left[2] + right[2])
    [] Tag(left) = "String" /\ Tag(right) = "String" -> VString(left[2] \o right[2])
    [] OTHER -> <<"Number", "NaN">>

\* The mutant of the destination write: the ignore register is written as the
\* last register of the frame
WriteDstAlways(f, dst, v) ==
  IF IsSome(dst) THEN SetReg(f, Unwrap(dst), v) ELSE SetReg(f, Len(f.registers) - 1, v)

\* `if register_index.is_some() { self.registers[register_index.unwrap()] = .. }`
WriteDst(f, dst, v) ==
  IF IsSome(dst) THEN SetReg(f, Unwrap(dst), v) ELSE f

DstOk(f, dst) == IsSome(dst) => RegOk(f, Unwrap(dst))

\* apply_unary_op (OpNot)
StepUnaryOp(bc, f, c) ==
  Bind(DecodeVal(bc, f.pos, f.registers, c, MaxDecodeDepth), LAMBDA input :
    IF input.panic # "" THEN StepPanic(f, input.cache, input.panic)
    ELSE Bind(DecodeRegisterIndex(bc, input.pos), LAMBDA r :
      IF r.panic # "" THEN StepPanic(f, input.cache, r.panic)
      ELSE IF ~DstOk(f, r.val) THEN StepPanic(f, input.cache, "index out of bounds")
      ELSE Continue(WriteDst([f EXCEPT !.pos = r.pos], r.val, op_not(input.val)), input.cache)))

\* Two value operands and a destination register: what apply_binary_op, Sub and
\* Bind decode
DecodeTwoAndDst(bc, f, c) ==
  Bind(DecodeVal(bc, f.pos, f.registers, c, MaxDecodeDepth), LAMBDA left :
    IF left.panic # "" THEN [panic |-> left.panic, cache |-> left.cache]
    ELSE Bind(DecodeVal(bc, left.pos, f.registers, left.cache, MaxDecodeDepth), LAMBDA right :
      IF right.panic # "" THEN [panic |-> right.panic, cache |-> right.cache]
      ELSE Bind(DecodeRegisterIndex(bc, right.pos), LAMBDA r :
        IF r.panic # "" THEN [panic |-> r.panic, cache |-> right.cache]
        ELSE IF ~DstOk(f, r.val) THEN [panic |-> "index out of bounds", cache |-> right.cache]
        ELSE [panic |-> "", cache |-> right.cache, left |-> left.val, right |-> right.val,
              dst |-> r.val, pos |-> r.pos])))

\* The operands for which operations::op_plus and op_sub give Err: a BigInt added
\* to a Number, and a subscript of undefined or null
OpThrows(op, left, right) ==
  IF op = OpPlus THEN {Tag(left), Tag(right)} = {"BigInt", "Number"}
  ELSE Tag(left) \in {"Void", "Undefined", "Null"}
OpError(op) ==
  IF op = OpPlus THEN TypeError("Cannot mix BigInt with other types")
  ELSE TypeError("Cannot subscript undefined")

\* apply_binary_op (OpPlus): the operation is applied, and its error returned,
\* only when the destination is a register
StepBinaryOp(bc, f, c) ==
  Bind(DecodeTwoAndDst(bc, f, c), LAMBDA d :
    IF d.panic # "" THEN StepPanic(f, d.cache, d.panic)
    ELSE IF IsSome(d.dst) /\ OpThrows(OpPlus, d.left, d.right)
    THEN Out([f EXCEPT !.pos = d.pos], d.cache, <<"Err", OpError(OpPlus)>>)
    ELSE Continue(WriteDst([f EXCEPT !.pos = d.pos], d.dst, op_plus(d.left, d.right)), d.cache))

\* step, Sub: as apply_binary_op
StepSub(bc, f, c) ==
  Bind(DecodeTwoAndDst(bc, f, c), LAMBDA d :
    IF d.panic # "" THEN StepPanic(f, d.cache, d.panic)
    ELSE IF IsSome(d.dst) /\ OpThrows(Sub, d.left, d.right)
    THEN Out([f EXCEPT !.pos = d.pos], d.cache, <<"Err", OpError(Sub)>>)
    ELSE Continue(WriteDst([f EXCEPT !.pos = d.pos], d.dst, ValSub(d.left, d.right)), d.cache))

\* step, Bind: the params must be an array and the value a function, whose binds
\* the params are appended to
StepBind(bc, f, c) ==
  Bind(DecodeTwoAndDst(bc, f, c), LAMBDA d :
    IF d.panic # "" THEN StepPanic(f, d.cache, d.panic)
    ELSE IF Tag(d.right) # "Array" THEN StepPanic(f, d.cache, "bind params should always be array")
    ELSE IF Tag(d.left) # "Function"
    THEN StepPanic(f, d.cache, "fn parameter of bind should always be bindable")
    ELSE Continue(WriteDst([f EXCEPT !.pos = d.pos], d.dst,
                           [d.left EXCEPT ![6] = @ \o d.right[2]]), d.cache))

\* step, UnpackIterRes
StepUnpackIterRes(bc, f, c) ==
  Bind(DecodeRegisterIndex(bc, f.pos), LAMBDA ir :
    IF ir.panic # "" THEN StepPanic(f, c, ir.panic)
    ELSE IF ~IsSome(ir.val) THEN StepPanic(f, c, "Can't unpack the ignore register")
    ELSE IF ~RegOk(f, Unwrap(ir.val)) THEN StepPanic(f, c, "index out of bounds")
    ELSE Bind(DecodeRegisterIndex(bc, ir.pos), LAMBDA vi :
      IF vi.panic # "" THEN StepPanic(f, c, vi.panic)
      ELSE IF ~DstOk(f, vi.val) THEN StepPanic(f, c, "index out of bounds")
      ELSE Bind(WriteDst(f, vi.val, ValSub(Reg(f, Unwrap(ir.val)), VString(<<118, 97, 108, 117, 101>>))),
        LAMBDA g :
          Bind(DecodeRegisterIndex(bc, vi.pos), LAMBDA di :
            IF di.panic # "" THEN StepPanic(g, c, di.panic)
            ELSE IF ~DstOk(g, di.val) THEN StepPanic(g, c, "index out of bounds")
            ELSE Continue(WriteDst([g EXCEPT !.pos = di.pos], di.val,
                                   ValSub(Reg(g, Unwrap(ir.val)), VString(<<100, 111, 110, 101>>))),
                          c)))))

\* step, SubCall | ConstSubCall | ThisSubCall: the receiver is a register (ThisArg::Register)
\* or a decoded value (ThisArg::Val)
SubCallReceiver(bc, f, c) ==
  IF ~InBytes(bc, f.pos) THEN [panic |-> "index out of bounds", pos |-> f.pos, cache |-> c, reg |-> None, val |-> VVoid]
  ELSE IF PeekType(bc, f.pos) = BtRegister
  THEN Bind(DecodeRegisterIndex(bc, f.pos + 1), LAMBDA r :
         IF r.panic # "" THEN [panic |-> r.panic, pos |-> r.pos, cache |-> c, reg |-> None, val |-> VVoid]
         ELSE IF ~IsSome(r.val)
         THEN [panic |-> "unwrap on a None value", pos |-> r.pos, cache |-> c,
               reg |-> None, val |-> VVoid]
         ELSE IF ~RegOk(f, Unwrap(r.val))
         THEN [panic |-> "index out of bounds", pos |-> r.pos, cache |-> c, reg |-> None, val |-> VVoid]
         ELSE [panic |-> "", pos |-> r.pos, cache |-> c, reg |-> r.val, val |-> Reg(f, Unwrap(r.val))])
  ELSE Bind(DecodeVal(bc, f.pos, f.registers, c, MaxDecodeDepth), LAMBDA d :
         [panic |-> d.panic, pos |-> d.pos, cache |-> d.cache, reg |-> None, val |-> d.val])

\* The mutant of the receiver's take: the receiver register keeps its value
TakeReceiverNot(f, obj) == f

\* take(&mut self.registers[reg_i]) for a register receiver
TakeReceiver(f, obj) ==
  IF IsSome(obj.reg) THEN SetReg(f, Unwrap(obj.reg), VVoid) ELSE f

StepSubCall(bc, f, c, op) ==
  Bind(op = ConstSubCall \/ (op = ThisSubCall /\ f.const_this), LAMBDA const_call :
    Bind(SubCallReceiver(bc, f, c), LAMBDA obj :
      IF obj.panic # "" THEN StepPanic(f, obj.cache, obj.panic)
      ELSE Bind(DecodeVal(bc, obj.pos, f.registers, obj.cache, MaxDecodeDepth), LAMBDA subscript :
        IF subscript.panic # "" THEN StepPanic(f, subscript.cache, subscript.panic)
        ELSE Bind(LoadFunction(ValSub(obj.val, subscript.val)), LAMBDA lf :
          IF lf[1] = "NotAFunction"
          THEN Out([f EXCEPT !.pos = subscript.pos], subscript.cache,
                   <<"Err", TypeError("fn_ is not a function")>>)
          ELSE IF lf[1] = "NativeFunction"
          THEN StepPanic(f, subscript.cache, "native function not modelled")
          ELSE Bind(TransferParameters(bc, subscript.pos, f.registers, subscript.cache, lf[2]), LAMBDA tp :
            IF tp.panic # "" THEN StepPanic(f, tp.cache, tp.panic)
            ELSE Bind(DecodeRegisterIndex(bc, tp.pos), LAMBDA rt :
              IF rt.panic # "" THEN StepPanic(f, tp.cache, rt.panic)
              ELSE Out([TakeReceiver(f, obj) EXCEPT !.pos = rt.pos, !.return_target = rt.val,
                                                    !.this_target = obj.reg],
                       tp.cache, <<"Push", WriteThis(tp.nf, const_call, obj.val)>>)))))))

\* The mutant of New: the destination is made the return target
StepNewReturns(bc, f, c) ==
  Bind(DecodeVal(bc, f.pos, f.registers, c, MaxDecodeDepth), LAMBDA class :
    IF class.panic # "" THEN StepPanic(f, class.cache, class.panic)
    ELSE IF Tag(class.val) # "Class"
    THEN Out([f EXCEPT !.pos = class.pos], class.cache,
             <<"Err", TypeError("value is not a constructor")>>)
    ELSE Bind(VObject(<<>>, <<>>, Some(class.val[3])), LAMBDA instance :
      IF class.val[2] = VVoid
      THEN Bind(DecodeVal(bc, class.pos, f.registers, class.cache, MaxDecodeDepth), LAMBDA params :
             IF params.panic # "" THEN StepPanic(f, params.cache, params.panic)
             ELSE Bind(DecodeRegisterIndex(bc, params.pos), LAMBDA tr :
               IF tr.panic # "" THEN StepPanic(f, params.cache, tr.panic)
               ELSE IF ~DstOk(f, tr.val) THEN StepPanic(f, params.cache, "index out of bounds")
               ELSE Continue(WriteDst([f EXCEPT !.pos = tr.pos], tr.val, instance), params.cache)))
      ELSE Bind(LoadFunction(class.val[2]), LAMBDA lf :
             IF lf[1] = "NotAFunction"
             THEN Out([f EXCEPT !.pos = class.pos], class.cache,
                      <<"Err", TypeError("fn_ is not a function")>>)
             ELSE IF lf[1] = "NativeFunction"
             THEN StepPanic(f, class.cache, "native function not modelled")
             ELSE Bind(TransferParameters(bc, class.pos, f.registers, class.cache, lf[2]), LAMBDA tp :
               IF tp.panic # "" THEN StepPanic(f, tp.cache, tp.panic)
               ELSE Bind(DecodeRegisterIndex(bc, tp.pos), LAMBDA tt :
                 IF tt.panic # "" THEN StepPanic(f, tp.cache, tt.panic)
                 ELSE Out([f EXCEPT !.pos = tt.pos, !.return_target = tt.val, !.this_target = None],
                          tp.cache, <<"Push", WriteThis(tp.nf, FALSE, instance)>>))))))

\* step, New: the operand must be a class; the instance is an empty object with
\* the class's instance prototype.  A Void constructor: the parameters are decoded
\* and the instance goes to the target register.  A bytecode constructor: its
\* frame is pushed with the instance as mutable `this`, and the target register
\* becomes this_target
StepNew(bc, f, c) ==
  Bind(DecodeVal(bc, f.pos, f.registers, c, MaxDecodeDepth), LAMBDA class :
    IF class.panic # "" THEN StepPanic(f, class.cache, class.panic)
    ELSE IF Tag(class.val) # "Class"
    THEN Out([f EXCEPT !.pos = class.pos], class.cache,
             <<"Err", TypeError("value is not a constructor")>>)
    ELSE Bind(VObject(<<>>, <<>>, Some(class.val[3])), LAMBDA instance :
      IF class.val[2] = VVoid
      THEN Bind(DecodeVal(bc, class.pos, f.registers, class.cache, MaxDecodeDepth), LAMBDA params :
             IF params.panic # "" THEN StepPanic(f, params.cache, params.panic)
             ELSE Bind(DecodeRegisterIndex(bc, params.pos), LAMBDA tr :
               IF tr.panic # "" THEN StepPanic(f, params.cache, tr.panic)
               ELSE IF ~DstOk(f, tr.val) THEN StepPanic(f, params.cache, "index out of bounds")
               ELSE Continue(WriteDst([f EXCEPT !.pos = tr.pos], tr.val, instance), params.cache)))
      ELSE Bind(LoadFunction(class.val[2]), LAMBDA lf :
             IF lf[1] = "NotAFunction"
             THEN Out([f EXCEPT !.pos = class.pos], class.cache,
                      <<"Err", TypeError("fn_ is not a function")>>)
             ELSE IF lf[1] = "NativeFunction"
             THEN StepPanic(f, class.cache, "native function not modelled")
             ELSE Bind(TransferParameters(bc, class.pos, f.registers, class.cache, lf[2]), LAMBDA tp :
               IF tp.panic # "" THEN StepPanic(f, tp.cache, tp.panic)
               ELSE Bind(DecodeRegisterIndex(bc, tp.pos), LAMBDA tt :
                 IF tt.panic # "" THEN StepPanic(f, tp.cache, tt.panic)
                 ELSE Out([f EXCEPT !.pos = tt.pos, !.return_target = None, !.this_target = tt.val],
                          tp.cache, <<"Push", WriteThis(tp.nf, FALSE, instance)>>))))))

\* step, RequireMutableThis
ConstThisMessage == "Cannot mutate this because it is const"

StepRequireMutableThisNever(bc, f, c) == Continue(f, c)

StepRequireMutableThis(bc, f, c) ==
  IF f.const_this THEN Out(f, c, <<"Err", TypeError(ConstThisMessage)>>)
  ELSE Continue(f, c)

\* step, Jmp
StepJmp(bc, f, c) ==
  Bind(DecodePos(bc, f.pos), LAMBDA d :
    IF d.panic # "" THEN StepPanic(f, c, d.panic)
    ELSE Continue([f EXCEPT !.pos = d.val], c))

\* The mutant of Throw with a register operand: the operand is read by
\* decode_val, so a Void register throws Undefined
ThrowRegisterCoerced(bc, f, c) ==
  Bind(DecodeVal(bc, f.pos, f.registers, c, MaxDecodeDepth), LAMBDA v :
    IF v.panic # "" THEN StepPanic(f, v.cache, v.panic)
    ELSE Out([f EXCEPT !.pos = v.pos], v.cache, <<"Err", v.val>>))

\* step, Throw, a register operand: it is read without the Void -> Undefined
\* conversion, and a Void register throws nothing
ThrowRegister(bc, f, c) ==
  Bind(DecodeRegisterIndex(bc, f.pos + 1), LAMBDA r :
    IF r.panic # "" THEN StepPanic(f, c, r.panic)
    ELSE IF ~IsSome(r.val) THEN StepPanic(f, c, "unwrap on None")
    ELSE IF ~RegOk(f, Unwrap(r.val)) THEN StepPanic(f, c, "index out of bounds")
    ELSE IF Reg(f, Unwrap(r.val)) = VVoid THEN Continue([f EXCEPT !.pos = r.pos], c)
    ELSE Out([f EXCEPT !.pos = r.pos], c, <<"Err", Reg(f, Unwrap(r.val))>>))

\* step, Throw
StepThrow(bc, f, c) ==
  IF ~InBytes(bc, f.pos) THEN StepPanic(f, c, "index out of bounds")
  ELSE IF PeekType(bc, f.pos) = BtRegister THEN ThrowRegister(bc, f, c)
  ELSE Bind(DecodeVal(bc, f.pos, f.registers, c, MaxDecodeDepth), LAMBDA v :
         IF v.panic # "" THEN StepPanic(f, v.cache, v.panic)
         ELSE Out([f EXCEPT !.pos = v.pos], v.cache, <<"Err", v.val>>))

\* step, SetCatch
StepSetCatch(bc, f, c) ==
  Bind(DecodePos(bc, f.pos), LAMBDA p :
    IF p.panic # "" THEN StepPanic(f, c, p.panic)
    ELSE Bind(DecodeRegisterIndex(bc, p.pos), LAMBDA r :
           IF r.panic # "" THEN StepPanic(f, c, r.panic)
           ELSE Continue([f EXCEPT !.pos = r.pos,
                                   !.catch_setting = Some([pos |-> p.val, register |-> r.val])],
                         c)))

\* step, UnsetCatch
StepUnsetCatch(bc, f, c) == Continue([f EXCEPT !.catch_setting = None], c)

\* The mutant of Yield: the destination register operand is left undecoded
StepYieldShort(bc, f, c) ==
  Bind(DecodeVal(bc, f.pos, f.registers, c, MaxDecodeDepth), LAMBDA v :
    IF v.panic # "" THEN StepPanic(f, v.cache, v.panic)
    ELSE Out([f EXCEPT !.pos = v.pos], v.cache, <<"Yield", v.val>>))

\* step, Yield: the destination register is decoded and not used
StepYield(bc, f, c) ==
  Bind(DecodeVal(bc, f.pos, f.registers, c, MaxDecodeDepth), LAMBDA v :
    IF v.panic # "" THEN StepPanic(f, v.cache, v.panic)
    ELSE Bind(DecodeRegisterIndex(bc, v.pos), LAMBDA r :
           IF r.panic # "" THEN StepPanic(f, v.cache, r.panic)
           ELSE Out([f EXCEPT !.pos = r.pos], v.cache, <<"Yield", v.val>>)))

\* The mutant of apply_call_result: `this` is written after the return value
ApplyCallResultThisLast(f, return_, this) ==
  LET g == IF IsSome(f.return_target) THEN SetReg(f, Unwrap(f.return_target), return_) ELSE f
  IN IF IsSome(f.this_target) THEN SetReg(g, Unwrap(f.this_target), this) ELSE g

\* apply_call_result
ApplyCallResult(f, return_, this) ==
  LET g == IF IsSome(f.this_target) THEN SetReg(f, Unwrap(f.this_target), this) ELSE f
  IN IF IsSome(f.return_target) THEN SetReg(g, Unwrap(f.return_target), return_) ELSE g

\* The mutant of catch_exception: a frame without a catch setting reports the
\* exception as caught
CatchExceptionAlways(f, exception) ==
  IF IsSome(f.catch_setting)
  THEN LET cs == Unwrap(f.catch_setting)
           g == IF IsSome(cs.register) THEN SetReg(f, Unwrap(cs.register), exception) ELSE f
       IN [caught |-> TRUE, f |-> [g EXCEPT !.pos = cs.pos, !.catch_setting = None]]
  ELSE [caught |-> TRUE, f |-> f]

\* The mutant of catch_exception: the catch setting stays in place after a catch
CatchExceptionKeeps(f, exception) ==
  IF IsSome(f.catch_setting)
  THEN LET cs == Unwrap(f.catch_setting)
           g == IF IsSome(cs.register) THEN SetReg(f, Unwrap(cs.register), exception) ELSE f
       IN [caught |-> TRUE, f |-> [g EXCEPT !.pos = cs.pos]]
  ELSE [caught |-> FALSE, f |-> f]

\* catch_exception
CatchException(f, exception) ==
  IF IsSome(f.catch_setting)
  THEN LET cs == Unwrap(f.catch_setting)
           g == IF IsSome(cs.register) THEN SetReg(f, Unwrap(cs.register), exception) ELSE f
       IN [caught |-> TRUE, f |-> [g EXCEPT !.pos = cs.pos, !.catch_setting = None]]
  ELSE [caught |-> FALSE, f |-> f]

-----------------------------------------------------------------------------
(* VirtualMachine *)

\* step: decode_instruction and the arm of the instruction
Step(bc, f, c) ==
  LET op == ByteAt(bc, f.pos)
      g == [f EXCEPT !.pos = f.pos + 1]
  IN CASE op = End -> StepEnd(bc, g, c)
       [] op = Mov -> StepMov(bc, g, c)
       [] op = Call -> StepCall(bc, g, c)
       [] op = OpPlus -> StepBinaryOp(bc, g, c)
       [] op = OpNot -> StepUnaryOp(bc, g, c)
       [] op = Sub -> StepSub(bc, g, c)
       [] op = OpBind -> StepBind(bc, g, c)
       [] op = UnpackIterRes -> StepUnpackIterRes(bc, g, c)
       [] op = Apply -> StepApply(bc, g, c)
       [] op \in {SubCall, ConstSubCall, ThisSubCall} -> StepSubCall(bc, g, c, op)
       [] op = RequireMutableThis -> StepRequireMutableThis(bc, g, c)
       [] op = Jmp -> StepJmp(bc, g, c)
       [] op = Throw -> StepThrow(bc, g, c)
       [] op = SetCatch -> StepSetCatch(bc, g, c)
       [] op = UnsetCatch -> StepUnsetCatch(bc, g, c)
       [] op = Yield -> StepYield(bc, g, c)
       [] op = New -> StepNew(bc, g, c)
       [] OTHER -> StepPanic(g, c, "Not implemented")

\* The instructions step has an arm for in this model
Modelled == {End, Mov, OpPlus, OpNot, Sub, OpBind, UnpackIterRes, Call, Apply, SubCall, ConstSubCall, ThisSubCall, Jmp, Throw, SetCatch, UnsetCatch, Yield, RequireMutableThis, New}

\* The mutant of the first frame: its two targets are exchanged
FirstFrameSwapped ==
  [pos |-> 0,
   registers |-> <<VUndefined, VUndefined>>,
   const_this |-> TRUE,
   param_start |-> 0,
   param_end |-> 0,
   this_target |-> Some(0),
   return_target |-> Some(1),
   catch_setting |-> None]

\* The first frame: it exists to receive the final CallResult
FirstFrame ==
  [pos |-> 0,
   registers |-> <<VUndefined, VUndefined>>,
   const_this |-> TRUE,
   param_start |-> 0,
   param_end |-> 0,
   this_target |-> Some(1),
   return_target |-> Some(0),
   catch_setting |-> None]

Top(S) == S[Len(S)]
Front(S) == SubSeq(S, 1, Len(S) - 1)
SetTop(S, f) == [S EXCEPT ![Len(S)] = f]

\* Unwinding: frames are popped until one's catch_exception returns true
RECURSIVE HandleException(_, _)
HandleException(S, exception) ==
  IF Len(S) = 0 THEN [caught |-> FALSE, stack |-> S]
  ELSE LET r == CatchException(Top(S), exception)
       IN IF r.caught THEN [caught |-> TRUE, stack |-> SetTop(S, r.f)]
          ELSE HandleException(Front(S), exception)

\* One turn of run's loop on the stack S whose top frame's step gave r
Turn(S, r) ==
  LET S1 == SetTop(S, r.f)
      kind == r.out[1]
  IN CASE kind = "Continue" -> [stack |-> S1, status |-> "running", result |-> VVoid]
       [] kind = "Push" -> [stack |-> Append(S1, r.out[2]), status |-> "running", result |-> VVoid]
       [] kind = "Pop" ->
            LET S2 == SetTop(Front(S1), ApplyCallResult(Top(Front(S1)), r.out[2], r.out[3]))
            IN IF Len(S2) > 1 THEN [stack |-> S2, status |-> "running", result |-> VVoid]
               ELSE [stack |-> S2, status |-> "done", result |-> S2[1].registers[1]]
       [] kind = "Err" ->
            LET h == HandleException(S1, r.out[2])
            IN IF h.caught THEN [stack |-> h.stack, status |-> "running", result |-> VVoid]
               ELSE [stack |-> h.stack, status |-> "err", result |-> r.out[2]]
       [] kind = "Panic" -> [stack |-> S1, status |-> "panic", result |-> <<"Panic", r.out[2]>>]

-----------------------------------------------------------------------------
(* The assembler: a layout pass that gives every label its byte position    *)
(* and an emit pass that writes the bytes.  An item is raw bytes            *)
(* <<"b", bytes>>, a label <<"label", name>>, a label reference             *)
(* <<"pos", name>> (two bytes) or a pointer value <<"ptr", name>> (the      *)
(* Pointer tag and two bytes).                                              *)

B(bytes) == <<"b", bytes>>
Label(name) == <<"label", name>>
LabelRef(name) == <<"pos", name>>
Pointer(name) == <<"ptr", name>>

ItemSize(it) ==
  CASE it[1] = "b" -> Len(it[2])
    [] it[1] = "label" -> 0
    [] it[1] = "pos" -> 2
    [] it[1] = "ptr" -> 3

RECURSIVE SizeOfFirst(_, _)
SizeOfFirst(items, n) == IF n = 0 THEN 0 ELSE SizeOfFirst(items, n - 1) + ItemSize(items[n])

LabelPos(items, name) ==
  LET i == CHOOSE i \in 1..Len(items) : items[i][1] = "label" /\ items[i][2] = name
  IN SizeOfFirst(items, i - 1)

PosBytes(p) == <<p % 256, p \div 256>>

RECURSIVE Emit(_, _)
Emit(items, n) ==
  IF n = 0 THEN <<>>
  ELSE Emit(items, n - 1) \o
       (CASE items[n][1] = "b" -> items[n][2]
          [] items[n][1] = "label" -> <<>>
          [] items[n][1] = "pos" -> PosBytes(LabelPos(items, items[n][2]))
          [] items[n][1] = "ptr" -> <<BtPointer>> \o PosBytes(LabelPos(items, items[n][2])))

Assemble(items) == Emit(items, Len(items))

-----------------------------------------------------------------------------
(* The programs the virtual machine is run on *)

\* A function with an optional try around a call: the handler either returns what
\* was caught or throws again.
\*   catch: "none" | "reg" (catch into %3) | "ignore";  rethrow: the handler throws
TryCall(name, callee, catch, rethrow) ==
  <<Label(name), B(<<BtFunction, 4, 0>>)>>
  \o (IF catch = "none" THEN <<>>
      ELSE <<B(<<SetCatch>>), LabelRef(name \o "_catch"),
             B(<<IF catch = "reg" THEN 3 ELSE IgnoreRegister>>)>>)
  \o <<B(<<Call>>), Pointer(callee), B(<<BtArray, BtEnd, 2>>)>>
  \o (IF catch = "none" THEN <<>> ELSE <<B(<<UnsetCatch>>)>>)
  \o <<B(<<Mov, BtRegister, 2, 0>>), B(<<Jmp>>), LabelRef(name \o "_end"),
       Label(name \o "_catch")>>
  \o (IF rethrow THEN <<B(<<Throw, BtSignedByte, 9>>)>> ELSE <<B(<<Mov, BtRegister, 3, 0>>)>>)
  \o <<Label(name \o "_end"), B(<<End>>)>>

\* The innermost function: it throws 5, throws a Void register (which throws
\* nothing), returns 7, or runs past the end of the bytecode
Leaf(name, kind) ==
  <<Label(name), B(<<BtFunction, 3, 0>>)>>
  \o (CASE kind = "throw" -> <<B(<<Throw, BtSignedByte, 5>>)>>
        [] kind = "void" -> <<B(<<Throw, BtRegister, 2>>)>>
        [] OTHER -> <<>>)
  \o <<B(<<Mov, BtSignedByte, 7, 0>>)>>
  \o (IF kind = "runoff" THEN <<>> ELSE <<B(<<End>>)>>)

CatchKinds == {"none", "reg", "ignore"}
LeafKinds == {"throw", "void", "ret", "runoff"}

ExceptionPrograms ==
  {Assemble(TryCall("main", "g", mc, mr) \o TryCall("g", "h", gc, gr) \o Leaf("h", hk)) :
     mc \in CatchKinds, mr \in BOOLEAN, gc \in CatchKinds, gr \in BOOLEAN, hk \in LeafKinds}

\* main(p) decodes a pointer to the array [p] twice, changing p in between, and
\* returns the first or the second decode
PointerPrograms ==
  {Assemble(<<B(<<BtFunction, 5, 1>>),
              B(<<Mov>>), Pointer("arr"), B(<<3>>),
              B(<<Mov, BtSignedByte, 9, 2>>),
              B(<<Mov>>), Pointer("arr"), B(<<4>>),
              B(<<Mov, BtRegister, r, 0, End>>),
              Label("arr"), B(<<BtArray, BtRegister, 2, BtEnd>>)>>) : r \in {3, 4}}

\* The bytes ValueType::TakeRegister may be written as: the assembler gives it a tag
\* of its own, and BytecodeType has no variant for any of these
TakeRegisterTags == {12, 15, 18, 21}

\* main(p): mov %!p %3; mov %3 %return
TakePrograms ==
  {Assemble(<<B(<<BtFunction, 4, 1>>),
              B(<<Mov, t, 2, 3>>),
              B(<<Mov, BtRegister, 3, 0, End>>)>>) : t \in TakeRegisterTags}

\* main(p): try { throw %r } catch (%3) { return %3 }; return 7, the thrown
\* register the parameter or a register that was never written, the try optional
ThrowPrograms ==
  {Assemble((IF try THEN <<B(<<BtFunction, 5, 1>>), B(<<SetCatch>>), LabelRef("catch"), B(<<3>>)>>
             ELSE <<B(<<BtFunction, 5, 1>>)>>)
            \o <<B(<<Throw, BtRegister, r>>),
                 B(<<Mov, BtSignedByte, 7, 0, End>>),
                 Label("catch"), B(<<Mov, BtRegister, 3, 0, End>>)>>) :
     r \in {2, 4}, try \in BOOLEAN}

\* The `this` operands of an Apply: a register, the register that is also the
\* return target, or a number
ThisOperands == {<<BtRegister, 3>>, <<BtRegister, 4>>, <<BtSignedByte, 5>>}

\* main(p): %3 = 5; %4 = 6; apply callee <this> [p] %ret; return [%3, %4]
\* callee(q): (require_mutable_this;) this = q; return 7
ApplyPrograms ==
  {Assemble(<<B(<<BtFunction, 5, 1>>),
              B(<<Mov, BtSignedByte, 5, 3>>),
              B(<<Mov, BtSignedByte, 6, 4>>),
              B(<<Apply>>), Pointer("callee"), B(this), B(<<BtArray, BtRegister, 2, BtEnd, ret>>),
              B(<<Mov, BtArray, BtRegister, 3, BtRegister, 4, BtEnd, 0, End>>),
              Label("callee"), B(<<BtFunction, 3, 1>>),
              B(IF require THEN <<RequireMutableThis>> ELSE <<>>),
              B(<<Mov, BtRegister, 2, 1>>),
              B(<<Mov, BtSignedByte, 7, 0, End>>)>>) :
     this \in ThisOperands, ret \in {4, IgnoreRegister}, require \in BOOLEAN}

\* The receiver operands of a method call: a register, or the object itself
Receivers == {"register", "value"}

\* outer(p): apply main %this [p] %return    (when wrapped: main's `this` is mutable)
\* main(p): %3 = {m: method}; %4 = 6; subcall <receiver> "m" [p] %ret; return [%3, %4]
\* method(q): (require_mutable_this;) this = q; return 7
SubCallPrograms ==
  {Assemble((IF wrapped
             THEN <<B(<<BtFunction, 3, 1>>),
                    B(<<Apply>>), Pointer("main"), B(<<BtRegister, 1, BtArray, BtRegister, 2, BtEnd, 0, End>>)>>
             ELSE <<>>)
            \o <<Label("main"), B(<<BtFunction, 5, 1>>),
                 B(<<Mov, BtObject, BtString, 1, 109>>), Pointer("method"), B(<<BtEnd, 3>>),
                 B(<<Mov, BtSignedByte, 6, 4>>),
                 B(<<op>>)>>
            \o (IF receiver = "register" THEN <<B(<<BtRegister, 3>>)>>
                ELSE <<B(<<BtObject, BtString, 1, 109>>), Pointer("method"), B(<<BtEnd>>)>>)
            \o <<B(<<BtString, 1, 109, BtArray, BtRegister, 2, BtEnd, ret>>),
                 B(<<Mov, BtArray, BtRegister, 3, BtRegister, 4, BtEnd, 0, End>>),
                 Label("method"), B(<<BtFunction, 3, 1>>),
                 B(IF require THEN <<RequireMutableThis>> ELSE <<>>),
                 B(<<Mov, BtRegister, 2, 1>>),
                 B(<<Mov, BtSignedByte, 7, 0, End>>)>>) :
     op \in {SubCall, ConstSubCall, ThisSubCall}, receiver \in Receivers,
     ret \in {3, 4, IgnoreRegister}, require \in BOOLEAN, wrapped \in BOOLEAN}

\* The instruction whose destination operands are dst (and dst2 for the done
\* register of UnpackIterRes)
Writing(op, dst, dst2) ==
  CASE op = Mov -> <<B(<<Mov, BtRegister, 2, dst>>)>>
    [] op = OpNot -> <<B(<<OpNot, BtRegister, 2, dst>>)>>
    [] op = OpPlus -> <<B(<<OpPlus, BtRegister, 2, BtSignedByte, 3, dst>>)>>
    [] op = Sub -> <<B(<<Sub, BtRegister, 3, BtSignedByte, 0, dst>>)>>
    [] op = OpBind -> <<B(<<OpBind>>), Pointer("bound"), B(<<BtArray, BtRegister, 2, BtEnd, dst>>)>>
    [] op = UnpackIterRes -> <<B(<<UnpackIterRes, 4, dst, dst2>>)>>

WritingOps == {Mov, OpNot, OpPlus, Sub, OpBind, UnpackIterRes}

\* main(p): %3 = [p]; %4 = {done: false, value: p}; <op> .. %dst; return [%2 .. %6]
IgnorePrograms ==
  {Assemble(<<B(<<BtFunction, 7, 1>>),
              B(<<Mov, BtArray, BtRegister, 2, BtEnd, 3>>),
              B(<<Mov, BtObject, BtString, 4, 100, 111, 110, 101, BtFalse,
                  BtString, 5, 118, 97, 108, 117, 101, BtRegister, 2, BtEnd, 4>>)>>
            \o Writing(op, dst, dst2)
            \o <<B(<<Mov, BtArray, BtRegister, 2, BtRegister, 3, BtRegister, 4, BtRegister, 5,
                     BtRegister, 6, BtEnd, 0, End>>),
                 Label("bound"), B(<<BtFunction, 4, 1, Mov, BtRegister, 2, 0, End>>)>>) :
     op \in WritingOps, dst \in {5, IgnoreRegister}, dst2 \in {6, IgnoreRegister}}

\* Bytecode whose entry value is a pointer to main(p) { return p }, or no function
\* at all: a number, an array, undefined, a pointer to a string
EntryPrograms ==
  {Assemble(<<Pointer("main"), B(<<End>>), Label("main"),
              B(<<BtFunction, 3, 1, Mov, BtRegister, 2, 0, End>>)>>),
   Assemble(<<B(<<BtSignedByte, 5, Mov, BtSignedByte, 7, 0, End>>)>>),
   Assemble(<<B(<<BtArray, BtEnd, Mov, BtSignedByte, 7, 0, End>>)>>),
   Assemble(<<B(<<BtUndefined, Mov, BtSignedByte, 7, 0, End>>)>>),
   Assemble(<<Pointer("s"), B(<<Mov, BtSignedByte, 7, 0, End>>), Label("s"), B(<<BtString, 1, 97>>)>>)}

\* The keys of an encoded object, in the order they are written: up to MaxKeys of
\* "a", "b", "c", a key more than once included
MaxKeys == 3
KeyLists == UNION {[1..n -> {97, 98, 99}] : n \in 1..MaxKeys}

\* main(p): return {k1: 1, k2: 2, ..}
ObjectPrograms ==
  {Assemble(<<B(<<BtFunction, 3, 1, Mov, BtObject>>)>>
            \o [i \in 1..Len(keys) |-> B(<<BtString, 1, keys[i], BtSignedByte, i>>)]
            \o <<B(<<BtEnd, 0, End>>)>>) : keys \in KeyLists}

\* The constructor of a class: none (Void), one that leaves `this` alone, or one
\* that makes its parameter its `this`
Constructors == {"void", "keeps", "sets"}

\* main(p): %3 = 6; %4 = 8; new <class> [p] %dst; return [%3, %4]
\* class: constructor, prototype {m: 1}; what is no class: the number 5
\* constructor(q): (require_mutable_this;) (this = q;) return 7
NewPrograms ==
  {Assemble(<<B(<<BtFunction, 5, 1>>),
              B(<<Mov, BtSignedByte, 6, 3>>),
              B(<<Mov, BtSignedByte, 8, 4>>),
              B(<<New>>)>>
            \o (IF class THEN <<Pointer("class")>> ELSE <<B(<<BtSignedByte, 5>>)>>)
            \o <<B(<<BtArray, BtRegister, 2, BtEnd, dst>>),
                 B(<<Mov, BtArray, BtRegister, 3, BtRegister, 4, BtEnd, 0, End>>),
                 Label("class"), B(<<BtClass>>)>>
            \o (IF constructor = "void" THEN <<B(<<BtVoid>>)>> ELSE <<Pointer("constructor")>>)
            \o <<B(<<BtObject, BtString, 1, 109, BtSignedByte, 1, BtEnd>>),
                 Label("constructor"), B(<<BtFunction, 3, 1>>),
                 B(IF require THEN <<RequireMutableThis>> ELSE <<>>),
                 B(IF constructor = "sets" THEN <<Mov, BtRegister, 2, 1>> ELSE <<>>),
                 B(<<Mov, BtSignedByte, 7, 0, End>>)>>) :
     class \in BOOLEAN, constructor \in Constructors, dst \in {4, IgnoreRegister},
     require \in BOOLEAN}

\* main(p): %3 = {m: method}; %6 = %3; try { <op> %3 "m" [p] %4 } catch (%5) { };
\*          return [%3, %6]
\* method(q): throw 5, or return 7
CaughtPrograms ==
  {Assemble(<<B(<<BtFunction, 7, 1>>),
              B(<<Mov, BtObject, BtString, 1, 109>>), Pointer("method"), B(<<BtEnd, 3>>),
              B(<<Mov, BtRegister, 3, 6>>),
              B(<<SetCatch>>), LabelRef("catch"), B(<<5>>),
              B(<<op, BtRegister, 3, BtString, 1, 109, BtArray, BtRegister, 2, BtEnd, 4>>),
              B(<<UnsetCatch>>),
              Label("catch"),
              B(<<Mov, BtArray, BtRegister, 3, BtRegister, 6, BtEnd, 0, End>>),
              Label("method"), B(<<BtFunction, 3, 1>>),
              B(IF throws THEN <<Throw, BtSignedByte, 5>> ELSE <<>>),
              B(<<Mov, BtSignedByte, 7, 0, End>>)>>) :
     op \in {SubCall, ConstSubCall, ThisSubCall}, throws \in BOOLEAN}

\* main(p): 1n + p -> %dst, or undefined["a"] -> %dst; return 7
ThrowingOps ==
  {<<OpPlus, BtBigInt, 2, 1, 1, BtRegister, 2>>, <<OpPlus, BtRegister, 2, BtBigInt, 2, 1, 1>>,
   <<Sub, BtUndefined, BtString, 1, 97>>, <<Sub, BtNull, BtString, 1, 97>>}
OperatorPrograms ==
  {Assemble(<<B(<<BtFunction, 4, 1>>), B(op), B(<<dst>>),
              B(<<Mov, BtSignedByte, 7, 0, End>>)>>) :
     op \in ThrowingOps, dst \in {3, IgnoreRegister}}

Programs ==
  OperatorPrograms \cup CaughtPrograms \cup NewPrograms \cup ObjectPrograms \cup EntryPrograms \cup IgnorePrograms \cup ExceptionPrograms \cup PointerPrograms \cup TakePrograms \cup ThrowPrograms \cup ApplyPrograms
    \cup SubCallPrograms

\* The `this` and params of a run
Arguments == {[this |-> VUndefined, params |-> <<VNumber(n)>>] : n \in {1, 2}}

-----------------------------------------------------------------------------
(* The virtual machine as a state machine *)

NoEvent ==
  [op |-> -1, kind |-> "", exc |-> VVoid, pre |-> <<>>, post |-> <<>>,
   spent |-> {}, spentBefore |-> {}, calls |-> <<>>, site |-> -1]

Init ==
  /\ bytecode \in Programs
  /\ args \in Arguments
  /\ cache = {}
  /\ stack = <<FirstFrame>>
  /\ status = "idle"
  /\ result = VVoid
  /\ ev = NoEvent
  /\ runNo = 0
  /\ firstResult = <<>>
  /\ dec = Idle /\ cow = Idle /\ cap = Idle /\ tdz = Idle /\ drv = Idle /\ cmp = Idle /\ low = Idle

\* run: the entry value at offset 0 must be a function; its frame is pushed on the
\* first frame with `this` and the params written
Run ==
  /\ status \in {"idle", "done", "err"}
  /\ runNo < MaxRuns
  /\ LET d == DecodeVal(bytecode, 0, <<>>, cache, MaxDecodeDepth)
         lf == LoadFunction(d.val)
     IN /\ cache' = d.cache
        /\ IF d.panic # "" \/ lf[1] # "StackFrame"
           THEN /\ status' = "panic"
                /\ result' = <<"Panic", "bytecode does start with function">>
                /\ stack' = <<FirstFrame>>
           ELSE /\ status' = "running"
                /\ result' = VVoid
                /\ stack' = <<FirstFrame, WriteParams(WriteThis(lf[2], TRUE, args.this), args.params)>>
  /\ runNo' = runNo + 1
  /\ ev' = NoEvent
  /\ UNCHANGED <<bytecode, firstResult, args, dec, cow, cap, tdz, drv, cmp, low>>

\* The state after a turn of run's loop: r is what the top frame's step gave and t
\* what the loop made of it
Turned(op, r, t) ==
  /\ stack' = t.stack
  /\ status' = t.status
  /\ result' = t.result
  /\ cache' = r.c
  /\ ev' = [op |-> op,
            kind |-> r.out[1],
            exc |-> IF r.out[1] = "Err" THEN r.out[2] ELSE VVoid,
            pre |-> stack,
            post |-> SetTop(stack, r.f),
            spent |-> ({i \in ev.spent : i <= Len(t.stack)}
                         \ (IF op = SetCatch THEN {Len(stack)} ELSE {}))
                      \cup (IF r.out[1] = "Err" /\ t.status = "running"
                            THEN {Len(t.stack)} ELSE {}),
            spentBefore |-> ev.spent,
            calls |-> IF r.out[1] = "Push" THEN Append(ev.calls, Top(stack).pos)
                      ELSE SubSeq(ev.calls, 1, IF Len(t.stack) > 2 THEN Len(t.stack) - 2 ELSE 0),
            site |-> IF r.out[1] = "Pop" /\ Len(ev.calls) > 0 THEN ev.calls[Len(ev.calls)]
                     ELSE -1]
  /\ firstResult' = IF runNo = 1 /\ t.status # "running"
                    THEN <<t.status, t.result>> ELSE firstResult

Stepped(op, r) == Turned(op, r, Turn(stack, r))

\* One turn of run's loop when the top frame's next instruction is op
VmStep(op) ==
  /\ InBytes(bytecode, Top(stack).pos)
  /\ ByteAt(bytecode, Top(stack).pos) = op
  /\ Stepped(op, Step(bytecode, Top(stack), cache))
  /\ UNCHANGED <<bytecode, runNo, args, dec, cow, cap, tdz, drv, cmp, low>>

DoEnd == status = "running" /\ VmStep(End)
DoMov == status = "running" /\ VmStep(Mov)
DoBinaryOp == status = "running" /\ VmStep(OpPlus)
DoUnaryOp == status = "running" /\ VmStep(OpNot)
DoSub == status = "running" /\ VmStep(Sub)
DoBind == status = "running" /\ VmStep(OpBind)
DoUnpackIterRes == status = "running" /\ VmStep(UnpackIterRes)
DoCall == status = "running" /\ VmStep(Call)
DoApply == status = "running" /\ VmStep(Apply)
DoRequireMutableThis == status = "running" /\ VmStep(RequireMutableThis)
DoSubCall == status = "running" /\ VmStep(SubCall)
DoConstSubCall == status = "running" /\ VmStep(ConstSubCall)
DoThisSubCall == status = "running" /\ VmStep(ThisSubCall)
DoJmp == status = "running" /\ VmStep(Jmp)
DoThrow == status = "running" /\ VmStep(Throw)
DoSetCatch == status = "running" /\ VmStep(SetCatch)
DoUnsetCatch == status = "running" /\ VmStep(UnsetCatch)
DoNew == status = "running" /\ VmStep(New)

\* decode_instruction past the end of the bytecode, or an instruction byte the
\* frame has no arm for: a panic
DoInvalid ==
  /\ status = "running"
  /\ IF InBytes(bytecode, Top(stack).pos)
     THEN ByteAt(bytecode, Top(stack).pos) \notin Modelled
     ELSE TRUE
  /\ status' = "panic"
  /\ result' = <<"Panic", "Unrecognized instruction">>
  /\ ev' = [NoEvent EXCEPT !.kind = "Panic", !.pre = stack, !.post = stack]
  /\ firstResult' = IF runNo = 1 THEN <<"panic", result'>> ELSE firstResult
  /\ UNCHANGED <<bytecode, cache, stack, runNo, args, dec, cow, cap, tdz, drv, cmp, low>>

Next ==
  \/ Run
  \/ DoNew
  \/ DoEnd
  \/ DoMov
  \/ DoBinaryOp
  \/ DoUnaryOp
  \/ DoSub
  \/ DoBind
  \/ DoUnpackIterRes
  \/ DoCall
  \/ DoApply
  \/ DoRequireMutableThis
  \/ DoSubCall
  \/ DoConstSubCall
  \/ DoThisSubCall
  \/ DoJmp
  \/ DoThrow
  \/ DoSetCatch
  \/ DoUnsetCatch
  \/ DoInvalid

Spec == Init /\ [][Next]_vars

-----------------------------------------------------------------------------
(* Properties of the virtual machine (specification Spec) *)

CatchingFrames(S) == {i \in 1..Len(S) : IsSome(S[i].catch_setting)}
Highest(K) == CHOOSE k \in K : \A j \in K : j <= k

\* C2: when a frame's step returns Err(e), frames are popped from the top until the
\* nearest frame with an active catch setting, which resumes; the frames below it
\* are neither popped nor modified; and when no frame has an active catch setting
\* run returns Err(e) with that same e.
C2_Unwinding ==
  ev.kind = "Err" =>
    IF CatchingFrames(ev.post) = {}
    THEN status = "err" /\ result = ev.exc
    ELSE /\ status = "running"
         /\ Len(stack) = Highest(CatchingFrames(ev.post))
         /\ \A i \in 1..(Len(stack) - 1) : stack[i] = ev.post[i]
         /\ stack[Len(stack)].pos = Unwrap(ev.post[Len(stack)].catch_setting).pos

\* C2 happens: an exception passes at least one frame and is caught by a frame that
\* has another frame with an active catch setting below it
C2_Caught_Below_Top ==
  /\ ev.kind = "Err" /\ status = "running"
  /\ Len(stack) < Len(ev.post)
  /\ \E i \in 1..(Len(stack) - 1) : IsSome(stack[i].catch_setting)

\* C3: catch_exception on a frame with an active CatchSetting {pos, register} writes
\* the thrown value into the register (none when it is ignore), sets the position
\* to pos, clears the setting and returns true; the setting is one-shot: a frame
\* that has caught holds no setting until it executes SetCatch again, so a second
\* exception raised in it is not caught by it, and catch_exception on a frame with
\* no setting returns false and leaves the frame unchanged.
C3_CatchException ==
  /\ (ev.kind = "Err" /\ status = "running") =>
       /\ IsSome(ev.post[Len(stack)].catch_setting)
       /\ stack[Len(stack)] =
            [ev.post[Len(stack)] EXCEPT
               !.pos = Unwrap(ev.post[Len(stack)].catch_setting).pos,
               !.catch_setting = None,
               !.registers =
                  IF IsSome(Unwrap(ev.post[Len(stack)].catch_setting).register)
                  THEN [ev.post[Len(stack)].registers EXCEPT
                          ![Unwrap(Unwrap(ev.post[Len(stack)].catch_setting).register) + 1] = ev.exc]
                  ELSE ev.post[Len(stack)].registers]
  /\ \A i \in ev.spent : i <= Len(stack) /\ ~IsSome(stack[i].catch_setting)
  /\ (ev.kind = "Err" /\ Len(ev.post) \in ev.spentBefore) =>
       (status = "err" \/ Len(stack) < Len(ev.post))
  /\ \A i \in 1..Len(stack) :
       ~IsSome(stack[i].catch_setting) =>
         CatchException(stack[i], VNumber(5)) = [caught |-> FALSE, f |-> stack[i]]

\* C3 happens: a frame that caught an exception, and has not executed SetCatch
\* since, raises a second one
C3_Second_Exception == ev.kind = "Err" /\ Len(ev.post) \in ev.spentBefore

\* C4: after an instruction reads a register operand r marked take, r holds Void
\* and the value read is the value r held before the read.
C4_TakeLeavesVoid ==
  (ev.op = Mov /\ ByteAt(bytecode, Top(ev.pre).pos + 1) \in TakeRegisterTags) =>
    /\ ev.kind = "Continue"
    /\ Reg(Top(stack), ByteAt(bytecode, Top(ev.pre).pos + 2)) = VVoid
    /\ Reg(Top(stack), ByteAt(bytecode, Top(ev.pre).pos + 3))
         = Reg(Top(ev.pre), ByteAt(bytecode, Top(ev.pre).pos + 2))

\* C7: two executions of run on the same bytecode with the same `this` and params
\* give the same result, the second reusing the VirtualMachine and the bytecode
\* with its filled pointer cache.
C7_Determinism ==
  (runNo >= 2 /\ status \in {"done", "err"}) => <<status, result>> = firstResult

\* C7 happens: a second run that decoded pointers out of the cache the first run
\* filled has returned
C7_Second_Run_Cached ==
  runNo = 2 /\ status = "done" /\ cache # {} /\ Tag(result) = "Array"

-----------------------------------------------------------------------------
(* Copy-on-write: registers over a heap of reference-counted array cells.    *)
(* A register holds Void, a Number or <<"Array", h>>, h a handle (Rc) to the  *)
(* cell heap[h] = [rc, elems]; a cell with rc = 0 is free.                    *)

Cell(rc, elems) == [rc |-> rc, elems |-> elems]
FreeCell == Cell(0, <<>>)
Handle(h) == <<"Array", h>>

\* The mutant of Rc::clone: the handle is copied and the count is left as it was
RetainNot(heap, v) == heap

\* Rc::clone: one more owner of the cell
Retain(heap, v) ==
  IF Tag(v) = "Array" THEN [heap EXCEPT ![v[2]].rc = @ + 1] ELSE heap

RECURSIVE RetainAll(_, _)
RetainAll(heap, vs) ==
  IF Len(vs) = 0 THEN heap ELSE RetainAll(Retain(heap, Head(vs)), Tail(vs))

\* Drop of an Rc: one owner fewer; the last owner frees the cell and drops its
\* elements
RECURSIVE Release(_, _)
RECURSIVE ReleaseAll(_, _)
Release(heap, v) ==
  IF Tag(v) # "Array" THEN heap
  ELSE IF heap[v[2]].rc # 1 THEN [heap EXCEPT ![v[2]].rc = IF @ > 0 THEN @ - 1 ELSE 0]
  ELSE ReleaseAll([heap EXCEPT ![v[2]] = FreeCell], heap[v[2]].elems)

ReleaseAll(heap, vs) ==
  IF Len(vs) = 0 THEN heap ELSE ReleaseAll(Release(heap, Head(vs)), Tail(vs))

\* The allocator: the first free cell
HasFree(heap) == \E h \in 1..MaxCells : heap[h].rc = 0
Alloc(heap) == CHOOSE h \in 1..MaxCells : heap[h].rc = 0 /\ \A g \in 1..(h - 1) : heap[g].rc # 0

\* Rc::make_mut: a uniquely held cell is borrowed, a shared one is cloned (its
\* elements cloned with it) and the clone is what the caller then holds
MakeMut(heap, h) ==
  IF heap[h].rc = 1 THEN [heap |-> heap, h |-> h]
  ELSE [heap |-> [RetainAll(heap, heap[h].elems) EXCEPT
                    ![h].rc = IF @ > 0 THEN @ - 1 ELSE 0,
                    ![Alloc(heap)] = Cell(1, heap[h].elems)],
        h |-> Alloc(heap)]

\* The value a register holds, handles followed
RECURSIVE Deep(_, _)
Deep(heap, v) ==
  IF Tag(v) # "Array" THEN v
  ELSE <<"Array", [i \in 1..Len(heap[v[2]].elems) |-> Deep(heap, heap[v[2]].elems[i])]>>

\* step, Mov with a register operand: the operand is cloned, the old value of the
\* destination is dropped
CowMov(heap, regs, src, dst) ==
  [heap |-> Release(Retain(heap, regs[src]), regs[dst]),
   regs |-> [regs EXCEPT ![dst] = regs[src]]]

\* step, Sub with register operands: dst = src[i] (Undefined out of bounds)
CowSub(heap, regs, src, i, dst) ==
  Bind(IF Tag(regs[src]) = "Array" /\ i < Len(heap[regs[src][2]].elems)
       THEN heap[regs[src][2]].elems[i + 1] ELSE VUndefined, LAMBDA v :
    [heap |-> Release(Retain(heap, v), regs[dst]),
     regs |-> [regs EXCEPT ![dst] = v]])

\* op_submov on an array: make_mut on the target register's handle, then the
\* element is replaced (v is already owned by the caller)
CowSubMov(heap, regs, target, i, v) ==
  Bind(MakeMut(heap, regs[target][2]), LAMBDA m :
    [heap |-> Release([m.heap EXCEPT ![m.h].elems[i + 1] = v], m.heap[m.h].elems[i + 1]),
     regs |-> [regs EXCEPT ![target] = Handle(m.h)]])

\* The values `expr` that register a starts with: a number, a flat array, an array
\* of two arrays, an array holding the same array twice
ExprValues ==
  LET free == [h \in 1..MaxCells |-> FreeCell]
  IN {[heap |-> free, a |-> VNumber(5)],
      [heap |-> [free EXCEPT ![1] = Cell(1, <<VNumber(1), VNumber(2)>>)], a |-> Handle(1)],
      [heap |-> [free EXCEPT ![1] = Cell(1, <<Handle(2), Handle(3)>>),
                             ![2] = Cell(1, <<VNumber(1), VNumber(2)>>),
                             ![3] = Cell(1, <<VNumber(3), VNumber(4)>>)], a |-> Handle(1)],
      [heap |-> [free EXCEPT ![1] = Cell(1, <<Handle(2), Handle(2)>>),
                             ![2] = Cell(2, <<VNumber(1), VNumber(2)>>)], a |-> Handle(1)]}


\* The virtual machine stands still in the specifications of the other components
VmIdle ==
  /\ bytecode = <<>> /\ cache = {} /\ stack = <<>> /\ status = "idle" /\ result = VVoid
  /\ ev = NoEvent /\ runNo = 0 /\ firstResult = <<>> /\ args = Idle

\* let a = expr: registers a, b, t are regs[1], regs[2], regs[3]
InitCow ==
  /\ \E e \in ExprValues :
       cow = [heap |-> e.heap, regs |-> <<e.a, VVoid, VVoid>>,
              copied |-> FALSE, before |-> VVoid, n |-> 0]
  /\ VmIdle
  /\ dec = Idle /\ cap = Idle /\ tdz = Idle /\ drv = Idle /\ cmp = Idle /\ low = Idle

\* mov a -> b
MovAB ==
  /\ ~cow.copied
  /\ Bind(CowMov(cow.heap, cow.regs, 1, 2), LAMBDA r :
       cow' = [cow EXCEPT !.heap = r.heap, !.regs = r.regs, !.copied = TRUE,
                          !.before = Deep(cow.heap, cow.regs[1])])
  /\ UNCHANGED <<vmVars, dec, cap, tdz, drv, cmp, low>>

\* One more instruction after the mov, leaving heap and registers as in r
Mutated(r) ==
  /\ cow' = [cow EXCEPT !.heap = r.heap, !.regs = r.regs, !.n = @ + 1]
  /\ UNCHANGED <<vmVars, dec, cap, tdz, drv, cmp, low>>

CanMutate == cow.copied /\ cow.n < MaxMutations
IsArrayWith(v, i) == Tag(v) = "Array" /\ i < Len(cow.heap[v[2]].elems)

\* submov i 7 -> b
SubMovB ==
  \E i \in 0..1 :
    /\ CanMutate /\ IsArrayWith(cow.regs[2], i) /\ HasFree(cow.heap)
    /\ Mutated(CowSubMov(cow.heap, cow.regs, 2, i, VNumber(7)))

\* sub b i -> t
SubBT ==
  \E i \in 0..1 :
    /\ CanMutate /\ IsArrayWith(cow.regs[2], i)
    /\ Mutated(CowSub(cow.heap, cow.regs, 2, i, 3))

\* submov j 7 -> t
SubMovT ==
  \E j \in 0..1 :
    /\ CanMutate /\ IsArrayWith(cow.regs[3], j) /\ HasFree(cow.heap)
    /\ Mutated(CowSubMov(cow.heap, cow.regs, 3, j, VNumber(7)))

\* submov i t -> b (the operand t is cloned by decode_val)
SubMovBT ==
  \E i \in 0..1 :
    /\ CanMutate /\ IsArrayWith(cow.regs[2], i) /\ HasFree(cow.heap)
    /\ cow.regs[3] # VVoid
    /\ Mutated(CowSubMov(Retain(cow.heap, cow.regs[3]), cow.regs, 2, i, cow.regs[3]))

\* op++ b: a Number is incremented in place
IncB ==
  /\ CanMutate /\ Tag(cow.regs[2]) = "Number"
  /\ Mutated([heap |-> cow.heap, regs |-> [cow.regs EXCEPT ![2] = VNumber(@[2] + 1)]])

NextCow ==
  \/ MovAB
  \/ SubMovB
  \/ SubBT
  \/ SubMovT
  \/ SubMovBT
  \/ IncB

SpecCow == InitCow /\ [][NextCow]_vars

-----------------------------------------------------------------------------
(* The decoder on its own: a byte array with a value at offset 0, pointers   *)
(* to it and to an array further on, and a sequence of decode_val calls at   *)
(* the pointers, each with the registers of the frame that decodes.          *)

\* The value at offset 0: one for every tag byte BytecodeType knows, and bytes it
\* does not know
TargetItems ==
  {B(<<BtEnd>>), B(<<BtVoid>>), B(<<BtUndefined>>), B(<<BtNull>>), B(<<BtFalse>>),
   B(<<BtTrue>>), B(<<BtSignedByte, 7>>), B(<<BtNumber, 0, 0, 0, 0, 0, 0, 240, 63>>),
   B(<<BtString, 1, 97>>), B(<<BtArray, BtEnd>>), B(<<BtObject, BtEnd>>),
   B(<<BtFunction, 3, 1>>), Pointer("arr"), B(<<BtRegister, 0>>), B(<<BtBuiltin, 0>>),
   B(<<BtClass, BtUndefined, BtUndefined>>), B(<<BtBigInt, 1, 0>>),
   B(<<BtGeneratorFunction, 3, 1>>), B(<<12>>), B(<<15>>), B(<<18>>), B(<<21>>),
   B(<<BtUnrecognized>>)}

\* The pointers decoded, by label: back to offset 0, forward to another pointer,
\* forward to the array (twice), back to the array
SiteNames == <<"back", "chain", "first", "second", "after">>

DecoderItems(item) ==
  <<Label("target"), item,
    Label("back"), Pointer("target"),
    Label("chain"), Pointer("first"),
    Label("first"), Pointer("arr"),
    Label("second"), Pointer("arr"),
    Label("arr"), B(<<BtArray, BtRegister, 0, BtEnd>>),
    Label("after"), Pointer("arr")>>

\* Classes at offset 0 whose constructor or prototype is a pointer: to the class
\* itself, to a second class that points back to the first, to a second class that
\* points to nothing, and to a function
ClassItems ==
  {<<B(<<BtClass>>), Pointer("target"), B(<<BtUndefined>>)>>,
   <<B(<<BtClass, BtUndefined>>), Pointer("target")>>,
   <<B(<<BtClass>>), Pointer("other"), B(<<BtUndefined>>),
     Label("other"), B(<<BtClass>>), Pointer("target"), B(<<BtUndefined>>)>>,
   <<B(<<BtClass>>), Pointer("other"), B(<<BtUndefined>>),
     Label("other"), B(<<BtClass, BtUndefined>>), Pointer("target")>>,
   <<B(<<BtClass>>), Pointer("other"), B(<<BtUndefined>>),
     Label("other"), B(<<BtClass, BtUndefined, BtUndefined>>)>>,
   <<B(<<BtClass>>), Pointer("other"), B(<<BtObject, BtEnd>>),
     Label("other"), B(<<BtFunction, 3, 1>>)>>}

\* The byte array of such a class: the pointers decoded follow it, and the only
\* pointers that point backwards are those to the class.  The longest way through
\* pointers that meets no offset twice is chain, first, second, arr: a decode that
\* follows MaxDecodeDepth pointers, one inside the other, has met an offset twice
ClassLayout(items) ==
  <<Label("target")>> \o items \o
  <<Label("back"), Pointer("target"),
    Label("chain"), Pointer("first"),
    Label("first"), Pointer("second"),
    Label("second"), Pointer("arr"),
    Label("after"), Pointer("arr"),
    Label("arr"), B(<<BtArray, BtRegister, 0, BtEnd>>)>>

DecoderLayouts ==
  {DecoderItems(item) : item \in TargetItems} \cup {ClassLayout(items) : items \in ClassItems}

\* The registers of the frames that decode
RegisterFiles == {<<VNumber(1)>>, <<VNumber(2)>>}

NoDecode ==
  [site |-> 0, target |-> 0, regs |-> <<>>, pre |-> {}, res |-> Ret(VVoid, 0, {})]

InitDecoder ==
  /\ \E items \in DecoderLayouts :
       /\ bytecode = Assemble(items)
       /\ dec = [sites |-> [i \in 1..Len(SiteNames) |-> LabelPos(items, SiteNames[i])],
                 n |-> 0, last |-> NoDecode]
  /\ cache = {}
  /\ stack = <<>> /\ status = "idle" /\ result = VVoid
  /\ ev = NoEvent /\ runNo = 0 /\ firstResult = <<>> /\ args = Idle
  /\ cow = Idle /\ cap = Idle /\ tdz = Idle /\ drv = Idle /\ cmp = Idle /\ low = Idle

\* decode_val at a pointer, as a frame with registers regs does for an operand.  A
\* panic ends the process: nothing is decoded after it.
Decoded(site, regs, r) ==
  /\ cache' = r.cache
  /\ dec' = [dec EXCEPT !.n = @ + 1,
                        !.last = [site |-> site,
                                  target |-> DecodePos(bytecode, site + 1).val,
                                  regs |-> regs, pre |-> cache, res |-> r]]

DecodeAt ==
  /\ dec.n < MaxDecodes
  /\ dec.last.res.panic = ""
  /\ \E i \in 1..Len(dec.sites), regs \in RegisterFiles :
       Decoded(dec.sites[i], regs,
               DecodeVal(bytecode, dec.sites[i], regs, cache, MaxDecodeDepth))
  /\ UNCHANGED <<bytecode, stack, status, result, ev, runNo, firstResult, args, cow, cap, tdz, drv, cmp, low>>

NextDecoder == DecodeAt

SpecDecoder == InitDecoder /\ [][NextDecoder]_vars

\* C5: decoding a pointer whose target offset is lower than the pointer's own
\* position is rejected (the decode panics) whenever the tag at the target is not
\* Function, GeneratorFunction or Class: an unrecognized tag byte, a Pointer, an
\* Array, an Object and every primitive tag included.
C5_PointerSafety ==
  (/\ dec.n > 0
   /\ dec.last.target < dec.last.site
   /\ PeekType(bytecode, dec.last.target) \notin {BtFunction, BtGeneratorFunction, BtClass})
  => dec.last.res.panic # ""

\* C5 happens: a pointer back to a byte that is no tag has been decoded; the
\* backward check let it through and decode_val at the target panicked
C5_Backward_Unrecognized ==
  /\ dec.n > 0
  /\ dec.last.target < dec.last.site
  /\ PeekType(bytecode, dec.last.target) = BtUnrecognized
  /\ dec.last.res.panic = "Unrecognized bytecode type"

\* The decode recorded last hit the cache
CacheHit == dec.n > 0 /\ CacheHas(dec.last.pre, dec.last.target)

\* The decode recorded last was stopped by the backward check of decode_pointer
BackwardRejected ==
  /\ dec.last.target < dec.last.site + 1
  /\ ~BackwardOk(bytecode, dec.last.target)

\* C6, as the code has it: a decode of a pointer to p that returns leaves the value
\* it returns in the cache under key p; a decode of a pointer to p when the cache
\* holds p, unless the backward check rejects the pointer, returns the cached value
\* and decodes nothing (the cache is as it was); an entry once present never changes.
C6_PointerCache ==
  dec.n > 0 =>
    /\ dec.last.res.panic = "" =>
         /\ CacheHas(cache, dec.last.target)
         /\ CacheGet(cache, dec.last.target) = dec.last.res.val
    /\ (CacheHit /\ ~BackwardRejected) =>
         /\ dec.last.res.panic = ""
         /\ dec.last.res.val = CacheGet(dec.last.pre, dec.last.target)
         /\ cache = dec.last.pre
    /\ \A e \in dec.last.pre : e \in cache
    /\ \A e1, e2 \in cache : e1[1] = e2[1] => e1 = e2

\* C6 as stated: every later decode of a pointer to p, from any decoder position,
\* returns the cached value
C6_EveryLaterDecode ==
  CacheHit =>
    /\ dec.last.res.panic = ""
    /\ dec.last.res.val = CacheGet(dec.last.pre, dec.last.target)

\* C6 happens: a pointer to a cached offset has been decoded by a frame whose
\* registers would make a fresh decode give another value, and the cached value
\* came back
C6_Stale_Hit ==
  /\ CacheHit
  /\ dec.last.res.panic = ""
  /\ dec.last.res.val = CacheGet(dec.last.pre, dec.last.target)
  /\ DecodeVal(bytecode, dec.last.target, dec.last.regs, {}, MaxDecodeDepth).val
       # dec.last.res.val

-----------------------------------------------------------------------------
(* A generator object: the frame stack of a called GeneratorFunction, kept   *)
(* apart from the stack of the caller.  next() steps that stack until a step *)
(* gives Yield or the root frame gives Pop.                                  *)

YieldKinds == {"const", "reg", "call"}
AfterNames == <<"after1", "after2", "after3", "after4">>
LeafNames == <<"k1", "k2", "k3", "k4">>

\* The value of the i-th yield
YieldValue(i) == 10 + i

\* yield <value i> -> dst, the value a constant, a register written just before, or
\* the result of a call
YieldItems(kind, i, dst) ==
  (CASE kind = "const" -> <<B(<<Yield, BtSignedByte, YieldValue(i), dst>>)>>
     [] kind = "reg" -> <<B(<<Mov, BtSignedByte, YieldValue(i), 3>>),
                          B(<<Yield, BtRegister, 3, dst>>)>>
     [] kind = "call" -> <<B(<<Call>>), Pointer(LeafNames[i]), B(<<BtArray, BtEnd, 3>>),
                           B(<<Yield, BtRegister, 3, dst>>)>>)
  \o <<Label(AfterNames[i])>>

RECURSIVE YieldsItems(_, _, _)
YieldsItems(kinds, n, dst) ==
  IF n = 0 THEN <<>> ELSE YieldsItems(kinds, n - 1, dst) \o YieldItems(kinds[n], n, dst)

RECURSIVE LeavesItems(_)
LeavesItems(n) ==
  IF n = 0 THEN <<>>
  ELSE LeavesItems(n - 1)
       \o <<Label(LeafNames[n]), B(<<BtFunction, 2, 0, Mov, BtSignedByte, YieldValue(n), 0, End>>)>>

\* function* g(p) { yield ...; ...; return p } or { ...; return 99 }
GeneratorItems(g) ==
  <<B(<<BtGeneratorFunction, 5, 1>>)>>
  \o YieldsItems(g.kinds, Len(g.kinds), g.dst)
  \o (IF g.ret = "param" THEN <<B(<<Mov, BtRegister, 2, 0, End>>)>>
      ELSE <<B(<<Mov, BtSignedByte, 99, 0, End>>)>>)
  \o LeavesItems(Len(g.kinds))

Generators ==
  {[kinds |-> k, dst |-> d, ret |-> r] :
     k \in UNION {[1..n -> YieldKinds] : n \in 0..MaxYields},
     d \in {IgnoreRegister, 4},
     r \in {"param", "const"}}

IterationResult(value, done) == [value |-> value, done |-> done]

\* Calling the generator function: the generator object holds the function's frame
\* with the parameters written and nothing stepped
InitGen ==
  /\ \E g \in Generators, a \in Arguments :
       /\ bytecode = Assemble(GeneratorItems(g))
       /\ args = [params |-> a.params,
                  yields |-> [i \in 1..Len(g.kinds) |-> VNumber(YieldValue(i))],
                  after |-> [i \in 1..Len(g.kinds) |-> LabelPos(GeneratorItems(g), AfterNames[i])],
                  return_ |-> IF g.ret = "param" THEN a.params[1] ELSE VNumber(99)]
       /\ stack = <<WriteParams(WriteThis(MakeFrame(DecodeVal(Assemble(GeneratorItems(g)), 0,
                                                               <<>>, {}, MaxDecodeDepth).val),
                                           TRUE, a.this), a.params)>>
  /\ cache = {}
  /\ status = "suspended"
  /\ result = <<>>
  /\ ev = [NoEvent EXCEPT !.post = stack]
  /\ runNo = 0
  /\ firstResult = <<>>
  /\ dec = Idle /\ cow = Idle /\ cap = Idle /\ tdz = Idle /\ drv = Idle /\ cmp = Idle /\ low = Idle

\* next(): the generator's stack is taken up where it was left
GenNext ==
  /\ status = "suspended"
  /\ status' = "running"
  /\ runNo' = runNo + 1
  /\ ev' = [ev EXCEPT !.kind = "Resume"]
  /\ UNCHANGED <<bytecode, cache, stack, result, firstResult, args, dec, cow, cap, tdz, drv, cmp, low>>

\* One turn of next()'s loop on the stack S whose top frame's step gave r; out is
\* what next() has returned so far
GenTurn(S, r, out) ==
  LET S1 == SetTop(S, r.f)
      kind == r.out[1]
  IN CASE kind = "Continue" -> [stack |-> S1, status |-> "running", result |-> out]
       [] kind = "Push" -> [stack |-> Append(S1, r.out[2]), status |-> "running", result |-> out]
       [] kind = "Pop" ->
            IF Len(S1) = 1
            THEN [stack |-> <<>>, status |-> "done",
                  result |-> Append(out, IterationResult(r.out[2], TRUE))]
            ELSE [stack |-> SetTop(Front(S1), ApplyCallResult(Top(Front(S1)), r.out[2], r.out[3])),
                  status |-> "running", result |-> out]
       [] kind = "Yield" ->
            [stack |-> S1, status |-> "suspended",
             result |-> Append(out, IterationResult(r.out[2], FALSE))]
       [] kind = "Err" -> [stack |-> <<>>, status |-> "err", result |-> out]
       [] kind = "Panic" -> [stack |-> S1, status |-> "panic", result |-> out]

GenTurned(op, r, t) ==
  /\ stack' = t.stack
  /\ status' = t.status
  /\ result' = t.result
  /\ cache' = r.c
  /\ ev' = [NoEvent EXCEPT !.op = op, !.kind = r.out[1], !.pre = stack, !.post = t.stack]

GenStep(op) ==
  /\ InBytes(bytecode, Top(stack).pos)
  /\ ByteAt(bytecode, Top(stack).pos) = op
  /\ Bind(Step(bytecode, Top(stack), cache), LAMBDA r :
       GenTurned(op, r, GenTurn(stack, r, result)))
  /\ UNCHANGED <<bytecode, runNo, firstResult, args, dec, cow, cap, tdz, drv, cmp, low>>

GenMov == status = "running" /\ GenStep(Mov)
GenCall == status = "running" /\ GenStep(Call)
GenEnd == status = "running" /\ GenStep(End)
GenYield == status = "running" /\ GenStep(Yield)

NextGen ==
  \/ GenNext
  \/ GenMov
  \/ GenCall
  \/ GenEnd
  \/ GenYield

SpecGen == InitGen /\ [][NextGen]_vars

\* What the next() calls of the generator return, in order
Expected ==
  [i \in 1..Len(args.yields) |-> IterationResult(args.yields[i], FALSE)]
  \o <<IterationResult(args.return_, TRUE)>>

\* C8: for a generator whose body runs Yield v1, ..., Yield vn and then returns r,
\* the next() calls return {value: v1, done: false}, ..., {value: vn, done: false}
\* in program order and then {value: r, done: true}, one result for each call; a
\* suspended generator stands at the instruction right after the Yield that
\* suspended it with the registers it had when it reached that Yield, and next()
\* resumes that very stack.
C8_GeneratorProtocol ==
  /\ status \in {"suspended", "running", "done"}
  /\ Len(result) <= Len(Expected)
  /\ \A i \in 1..Len(result) : result[i] = Expected[i]
  /\ Len(result) = IF status = "running" THEN runNo - 1 ELSE runNo
  /\ status = "done" <=> Len(result) = Len(Expected)
  /\ (status = "suspended" /\ runNo > 0) =>
       /\ Len(stack) = 1
       /\ stack[1].pos = args.after[Len(result)]
       /\ stack[1].registers = Top(ev.pre).registers
  /\ ev.kind = "Resume" => stack = ev.post

\* C8 happens: a generator with the most yields has returned all its values and
\* then, its root frame popped by End, its return value
C8_All_Yielded ==
  /\ status = "done"
  /\ Len(args.yields) = MaxYields
  /\ Len(result) = MaxYields + 1
  /\ result[MaxYields + 1] = IterationResult(args.return_, TRUE)
  /\ ev.op = End

-----------------------------------------------------------------------------
(* populate_block_scope: the capture lists of the function declarations of a *)
(* block, from the direct captures CaptureFinder found for each of them.     *)

\* function_decls, in the order of the block
FunctionDecls == <<"f", "g", "h">>

\* The names a declaration can capture: its siblings, itself, and a variable of
\* the enclosing scope
CaptureNames == {"f", "g", "h", "x"}

\* cf.ordered_names: every name once, in order of first use
OrderedNames ==
  {<<>>} \cup {<<a>> : a \in CaptureNames}
         \cup {p \in CaptureNames \X CaptureNames : p[1] # p[2]}

Range(seq) == {seq[i] : i \in 1..Len(seq)}

\* The mutant of the nested-captures loop: nothing is added to the queue
NestedCapsNone(map, c) == <<>>

\* direct_captures_map.get(&cap): the captures of cap when cap is a declaration
NestedCaps(map, c) == IF c \in DOMAIN map THEN map[c] ELSE <<>>

InitCapture ==
  /\ \E map \in [Range(FunctionDecls) -> OrderedNames] :
       cap = [direct_captures_map |-> map, fn |-> 0, looping |-> FALSE,
              cap_queue |-> <<>>, full_captures |-> <<>>, full_captures_set |-> {},
              removed |-> 0, capture_params |-> <<>>]
  /\ VmIdle
  /\ dec = Idle /\ cow = Idle /\ tdz = Idle /\ drv = Idle /\ cmp = Idle /\ low = Idle

\* for fn_ in &function_decls: the queue starts with the direct captures of fn_
FnDecl ==
  /\ ~cap.looping /\ cap.fn < Len(FunctionDecls)
  /\ cap' = [cap EXCEPT !.fn = @ + 1, !.looping = TRUE,
                        !.cap_queue = cap.direct_captures_map[FunctionDecls[cap.fn + 1]],
                        !.full_captures = <<>>, !.full_captures_set = {}, !.removed = 0]
  /\ UNCHANGED <<vmVars, dec, cow, tdz, drv, cmp, low>>

\* loop: cap_queue.remove() gives a name that is in full_captures_set; continue
CapSeen ==
  /\ cap.looping /\ cap.cap_queue # <<>>
  /\ Head(cap.cap_queue) \in cap.full_captures_set
  /\ cap' = [cap EXCEPT !.cap_queue = Tail(@), !.removed = @ + 1]
  /\ UNCHANGED <<vmVars, dec, cow, tdz, drv, cmp, low>>

\* loop: cap_queue.remove() gives a new name; it is pushed and its own direct
\* captures are queued
CapNew ==
  /\ cap.looping /\ cap.cap_queue # <<>>
  /\ Head(cap.cap_queue) \notin cap.full_captures_set
  /\ cap' = [cap EXCEPT !.cap_queue = Tail(@) \o NestedCaps(cap.direct_captures_map, Head(@)),
                        !.full_captures_set = @ \cup {Head(cap.cap_queue)},
                        !.full_captures = Append(@, Head(cap.cap_queue)),
                        !.removed = @ + 1]
  /\ UNCHANGED <<vmVars, dec, cow, tdz, drv, cmp, low>>

\* loop: the queue is empty; break, and the QueuedFunction gets full_captures
QueueFunction ==
  /\ cap.looping /\ cap.cap_queue = <<>>
  /\ cap' = [cap EXCEPT !.looping = FALSE,
                        !.capture_params = Append(@, cap.full_captures)]
  /\ UNCHANGED <<vmVars, dec, cow, tdz, drv, cmp, low>>

NextCapture ==
  \/ FnDecl
  \/ CapSeen
  \/ CapNew
  \/ QueueFunction

SpecCapture == InitCapture /\ [][NextCapture]_vars

\* The names reached from the names in S by at most k more steps of the direct
\* capture relation
RECURSIVE Reached(_, _, _)
Reached(map, S, k) ==
  IF k = 0 THEN S
  ELSE Reached(map, S \cup UNION {Range(map[g]) : g \in S \cap DOMAIN map}, k - 1)

\* The transitive closure of the direct-capture relation at f: every h with a chain
\* f captures g1, g1 captures g2, ..., gk captures h
Closure(map, f) == Reached(map, Range(map[f]), Cardinality(CaptureNames))

\* C9: the capture list computed for a function declaration f holds exactly the
\* names of the transitive closure of the direct-capture relation at f, each name
\* once; the loop ends, cyclic relations included: it removes from the queue no
\* more names than the direct captures of f and of all declarations together.
C9_CaptureClosure ==
  /\ \A i \in 1..Len(cap.capture_params) :
       /\ Range(cap.capture_params[i]) = Closure(cap.direct_captures_map, FunctionDecls[i])
       /\ Cardinality(Range(cap.capture_params[i])) = Len(cap.capture_params[i])
  /\ cap.fn > 0 =>
       cap.removed <= Len(cap.direct_captures_map[FunctionDecls[cap.fn]])
                      + Len(cap.direct_captures_map["f"])
                      + Len(cap.direct_captures_map["g"])
                      + Len(cap.direct_captures_map["h"])
  /\ (cap.looping /\ cap.cap_queue = <<>>) =>
       Range(cap.full_captures) = Closure(cap.direct_captures_map, FunctionDecls[cap.fn])

\* C9 happens: f captures g, g captures f and h, h captures x; the list of f is
\* complete and holds f itself, h and x
C9_Cyclic_Chain ==
  /\ Len(cap.capture_params) >= 1
  /\ cap.direct_captures_map["f"] = <<"g">>
  /\ cap.direct_captures_map["g"] = <<"f", "h">>
  /\ cap.direct_captures_map["h"] = <<"x">>
  /\ cap.capture_params[1] = <<"g", "f", "h", "x">>

-----------------------------------------------------------------------------
(* The temporal dead zone: the diagnostics the expression compiler pushes    *)
(* for the references in the body of the function it is compiling.           *)

\* Names of the scope analysis: x is a let/const binding (it has a tdz_end), v is
\* a name without one (a var, a parameter, a function)
TdzNames == {"x", "v"}

\* Value::Register
Register(name) == <<"Register", name>>

Diagnostic(level, span, name) == [level |-> level, span |-> span, name |-> name]

\* The mutant of the comparison: the last position of the dead zone is let through
InTdzStrict(lo, tdz_end) == lo < tdz_end

\* span.lo() <= tdz_end
InTdz(lo, tdz_end) == lo <= tdz_end

\* capturing_fn_ref, one turn of `for cap in captures`: a capture that is not
\* found is an internal error, one that is no register is skipped, one whose
\* register is a parameter of the current function is not checked
CaptureDiagnostics(t, span, c) ==
  IF ~IsSome(t.lookup[c]) THEN {Diagnostic("InternalError", 0, c)}
  ELSE IF Unwrap(t.lookup[c])[1] # "Register" THEN {}
  ELSE IF Unwrap(t.lookup[c])[2] \in t.parameters THEN {}
  ELSE IF IsSome(t.tdz_end[c]) /\ InTdz(span, Unwrap(t.tdz_end[c]))
  THEN {Diagnostic("Error", span, c)}
  ELSE {}

\* A direct read of a name: the diagnostic of the scope analysis
IdentifierDiagnostics(t, span, name) ==
  IF IsSome(t.tdz_end[name]) /\ InTdz(span, Unwrap(t.tdz_end[name]))
  THEN {Diagnostic("Error", span, name)}
  ELSE {}

\* The function being compiled: where the declaration of x ends, what x resolves
\* to (its register, a value that is no register, nothing), and which registers
\* are parameters
InitTdz ==
  /\ \E e \in 1..MaxPos, l \in {Some(Register("x")), Some(Pointer("x")), None},
        ps \in SUBSET TdzNames :
       tdz = [tdz_end |-> [n \in TdzNames |-> IF n = "x" THEN Some(e) ELSE None],
              lookup |-> [n \in TdzNames |-> IF n = "x" THEN l ELSE Some(Register("v"))],
              parameters |-> ps,
              diagnostics |-> {},
              n |-> 0,
              last |-> [kind |-> "", span |-> 0, names |-> {}, pushed |-> {}]]
  /\ VmIdle
  /\ dec = Idle /\ cow = Idle /\ cap = Idle /\ drv = Idle /\ cmp = Idle /\ low = Idle

\* A reference at span to the names has been compiled and has pushed diagnostics
Referenced(kind, span, names, pushed) ==
  /\ tdz' = [tdz EXCEPT !.diagnostics = @ \cup pushed,
                        !.n = @ + 1,
                        !.last = [kind |-> kind, span |-> span, names |-> names,
                                  pushed |-> pushed]]
  /\ UNCHANGED <<vmVars, dec, cow, cap, drv, cmp, low>>

\* identifier: a direct read of a variable
Identifier ==
  /\ tdz.n < MaxRefs
  /\ \E span \in 1..MaxPos, name \in TdzNames :
       Referenced("identifier", span, {name}, IdentifierDiagnostics(tdz, span, name))

\* capturing_fn_ref: a function value with captures is created at span
CapturingFnRef ==
  /\ tdz.n < MaxRefs
  /\ \E span \in 1..MaxPos, captures \in SUBSET TdzNames :
       Referenced("capture", span, captures,
                  UNION {CaptureDiagnostics(tdz, span, c) : c \in captures})

NextTdz ==
  \/ Identifier
  \/ CapturingFnRef

SpecTdz == InitTdz /\ [][NextTdz]_vars

\* The reference compiled last has pushed an Error for name
Flagged(name) ==
  \E d \in tdz.last.pushed :
    d.level = "Error" /\ d.span = tdz.last.span /\ d.name = name

\* The reference compiled last is to name and lies in its dead zone
InDeadZone(name) ==
  /\ tdz.n > 0
  /\ name \in tdz.last.names
  /\ IsSome(tdz.tdz_end[name])
  /\ tdz.last.span <= Unwrap(tdz.tdz_end[name])

\* The capture compiled last resolves name to a register that is not a parameter
\* of the function being compiled
CheckedCapture(name) ==
  /\ IsSome(tdz.lookup[name])
  /\ Unwrap(tdz.lookup[name])[1] = "Register"
  /\ Unwrap(tdz.lookup[name])[2] \notin tdz.parameters

-----------------------------------------------------------------------------
(* Register operands that hold Void *)

\* The step recorded in ev was instruction op with a register as first operand
RegisterOperand(op) ==
  /\ ev.op = op
  /\ InBytes(bytecode, Top(ev.pre).pos + 2)
  /\ ByteAt(bytecode, Top(ev.pre).pos + 1) = BtRegister
  /\ RegOk(Top(ev.pre), ByteAt(bytecode, Top(ev.pre).pos + 2))

\* The value the operand register held before the step, and after it
OperandBefore == Reg(Top(ev.pre), ByteAt(bytecode, Top(ev.pre).pos + 2))
OperandAfter == Reg(Top(ev.post), ByteAt(bytecode, Top(ev.pre).pos + 2))

\* The destination register of the Mov recorded in ev
MovTarget == ByteAt(bytecode, Top(ev.pre).pos + 3)

\* C11, as the code has it: when an instruction decodes a value operand with
\* decode_val (here Mov) and the operand is a register that holds Void, the
\* instruction sees Undefined and the register still holds Void afterwards.
C11_VoidCoercion ==
  (RegisterOperand(Mov) /\ OperandBefore = VVoid /\ MovTarget # IgnoreRegister) =>
    /\ ev.kind = "Continue"
    /\ Reg(Top(ev.post), MovTarget) = VUndefined
    /\ (MovTarget # ByteAt(bytecode, Top(ev.pre).pos + 2) => OperandAfter = VVoid)

\* C11 as stated: whichever instruction decodes the register operand (Mov or
\* Throw), the value it sees is Undefined and the register still holds Void
C11_EveryInstruction ==
  /\ C11_VoidCoercion
  /\ (RegisterOperand(Throw) /\ OperandBefore = VVoid) =>
       /\ ev.kind = "Err" /\ ev.exc = VUndefined
       /\ OperandAfter = VVoid

\* C11 happens: a Mov has read a register that holds Void and has written
\* Undefined to another register
C11_Mov_Of_Void ==
  /\ RegisterOperand(Mov) /\ OperandBefore = VVoid
  /\ MovTarget # IgnoreRegister
  /\ Reg(Top(ev.post), MovTarget) = VUndefined
  /\ OperandAfter = VVoid

\* C12: a Throw whose operand is a register holding Void raises nothing: the step
\* gives Continue, the frame stands at the next instruction with its registers and
\* catch setting as they were; a Throw of a register holding anything else raises
\* exactly that value.
C12_ThrowVoid ==
  RegisterOperand(Throw) =>
    IF OperandBefore = VVoid
    THEN /\ ev.kind = "Continue"
         /\ ev.post = SetTop(ev.pre, [Top(ev.pre) EXCEPT !.pos = @ + 3])
         /\ stack = ev.post
         /\ status = "running"
    ELSE /\ ev.kind = "Err"
         /\ ev.exc = OperandBefore

\* C12 happens: inside a try, a Throw of a Void register has been stepped over
C12_Void_Thrown_In_Try ==
  /\ RegisterOperand(Throw) /\ OperandBefore = VVoid
  /\ ev.kind = "Continue"
  /\ IsSome(Top(stack).catch_setting)

-----------------------------------------------------------------------------
(* const_this and the write-back of `this` (specification Spec) *)

SubCallOps == {SubCall, ConstSubCall, ThisSubCall}

\* The const_ argument of the write_this an Apply at position pos makes: FALSE
\* for a register `this` operand, TRUE for any other (the callee operand of the
\* programs is a pointer, three bytes)
ApplyThisAt(pos) == pos + 4
ApplyConst(pos) == ByteAt(bytecode, ApplyThisAt(pos)) # BtRegister

\* C13: RequireMutableThis gives an Err with the TypeError exactly when the frame's
\* const_this is set and otherwise continues with nothing but the position changed;
\* a frame pushed by Apply or a method call has the const_ of that instruction's
\* write_this as its const_this,
\* and no step changes the const_this of a frame that stays on the stack.
C13_RequireMutableThis ==
  /\ (ev.op = RequireMutableThis) =>
       IF Top(ev.pre).const_this
       THEN ev.kind = "Err" /\ ev.exc = TypeError(ConstThisMessage)
       ELSE /\ ev.kind = "Continue"
            /\ stack = SetTop(ev.pre, [Top(ev.pre) EXCEPT !.pos = @ + 1])
  /\ (ev.op = Apply /\ ev.kind = "Push") =>
       Top(stack).const_this = ApplyConst(Top(ev.pre).pos)
  /\ (ev.op \in SubCallOps /\ ev.kind = "Push") =>
       Top(stack).const_this =
         (ev.op = ConstSubCall \/ (ev.op = ThisSubCall /\ Top(ev.pre).const_this))
  /\ \A i \in 1..Len(stack) :
       (ev.op # -1 /\ i <= Len(ev.pre)) => stack[i].const_this = ev.pre[i].const_this

\* C13 happens: RequireMutableThis has continued in a frame whose `this` an Apply
\* wrote as mutable
C13_Mutable_This_Passed ==
  /\ ev.op = RequireMutableThis /\ ev.kind = "Continue"
  /\ ~Top(ev.pre).const_this
  /\ Len(ev.calls) > 0 /\ ~ApplyConst(ev.calls[Len(ev.calls)])

\* and it has raised in a frame whose `this` an Apply wrote as const
C13_Const_This_Raised ==
  /\ ev.op = RequireMutableThis /\ ev.kind = "Err"
  /\ Top(ev.pre).const_this
  /\ status = "err" /\ result = TypeError(ConstThisMessage)


\* The frames of a return (a Pop below the entry frame): the callee as it was before
\* its End, and its caller before and after apply_call_result
Returned(op) ==
  /\ ev.kind = "Pop" /\ ev.site >= 0
  /\ ByteAt(bytecode, ev.site) = op
  /\ status = "running"
Callee == Top(ev.pre)
CallerBefore == Top(Front(ev.pre))
CallerAfter == Top(stack)
FinalThis == Reg(Callee, 1)
ReturnValue == Reg(Callee, 0)
OthersKept(written) ==
  \A i \in 0..(Len(CallerBefore.registers) - 1) :
    i \notin written => Reg(CallerAfter, i) = Reg(CallerBefore, i)
ReturnTargets ==
  IF IsSome(CallerBefore.return_target) THEN {Unwrap(CallerBefore.return_target)} ELSE {}

\* The `this` operand of the Apply a frame was pushed by
ApplyThisRegister == ByteAt(bytecode, ApplyThisAt(ev.site) + 1)

\* C15: an Apply with a register r as `this` pushes a callee with mutable `this`
\* holding r's value, and when the callee returns r holds the callee's final `this`
\* unless r is also the return target, which holds the return value; an Apply with
\* any other `this` operand pushes a callee with const `this`, and on return only
\* the return target is written.
C15_ApplyWriteBack ==
  /\ (ev.op = Apply /\ ev.kind = "Push") =>
       IF ApplyConst(Top(ev.pre).pos)
       THEN Top(stack).const_this
       ELSE /\ ~Top(stack).const_this
            /\ Reg(Top(stack), 1) =
                 Reg(Top(ev.pre), ByteAt(bytecode, ApplyThisAt(Top(ev.pre).pos) + 1))
  /\ Returned(Apply) =>
       IF ApplyConst(ev.site)
       THEN OthersKept(ReturnTargets)
       ELSE /\ ApplyThisRegister \notin ReturnTargets =>
                 Reg(CallerAfter, ApplyThisRegister) = FinalThis
            /\ \A rt \in ReturnTargets : Reg(CallerAfter, rt) = ReturnValue
            /\ OthersKept(ReturnTargets \cup {ApplyThisRegister})

\* C15 as stated: after the return of an Apply with register r as `this`, r holds
\* the callee's final `this`
C15_RegisterHoldsThis ==
  (Returned(Apply) /\ ~ApplyConst(ev.site)) =>
    Reg(CallerAfter, ApplyThisRegister) = FinalThis

\* C15 happens: a callee applied with a register `this` has changed its `this` and
\* returned, and the register holds the new value
C15_This_Written_Back ==
  /\ Returned(Apply) /\ ~ApplyConst(ev.site)
  /\ ApplyThisRegister \notin ReturnTargets
  /\ Reg(CallerBefore, ApplyThisRegister) # FinalThis
  /\ Reg(CallerAfter, ApplyThisRegister) = FinalThis


\* The receiver operand of the method call at position pos
ReceiverIsRegister(pos) == ByteAt(bytecode, pos + 1) = BtRegister
ReceiverRegister(pos) == ByteAt(bytecode, pos + 2)
ReturnedSubCall == \E op \in SubCallOps : Returned(op)

\* C19: a method call on a register r whose method is a bytecode function pushes a
\* callee whose `this` is r's value and leaves Void in r; when the callee returns
\* r holds its final `this` unless r is also the return target, and the return
\* target holds its return value; after a method call on a value only the return
\* target is written.
C19_ReceiverWriteBack ==
  /\ (ev.op \in SubCallOps /\ ev.kind = "Push" /\ ReceiverIsRegister(Top(ev.pre).pos)) =>
       /\ Reg(Top(stack), 1) = Reg(Top(ev.pre), ReceiverRegister(Top(ev.pre).pos))
       /\ Reg(Top(Front(stack)), ReceiverRegister(Top(ev.pre).pos)) = VVoid
  /\ ReturnedSubCall =>
       IF ReceiverIsRegister(ev.site)
       THEN /\ ReceiverRegister(ev.site) \notin ReturnTargets =>
                 Reg(CallerAfter, ReceiverRegister(ev.site)) = FinalThis
            /\ \A rt \in ReturnTargets : Reg(CallerAfter, rt) = ReturnValue
            /\ OthersKept(ReturnTargets \cup {ReceiverRegister(ev.site)})
       ELSE /\ \A rt \in ReturnTargets : Reg(CallerAfter, rt) = ReturnValue
            /\ OthersKept(ReturnTargets)

\* C19 as stated: after the return of a method call on register r, r holds the
\* callee's final `this`
C19_ReceiverHoldsThis ==
  (ReturnedSubCall /\ ReceiverIsRegister(ev.site)) =>
    Reg(CallerAfter, ReceiverRegister(ev.site)) = FinalThis

\* C19 happens: a method called on a register has changed its `this` and returned;
\* the register, Void during the call, holds the new `this`
C19_Receiver_Written_Back ==
  /\ ReturnedSubCall /\ ReceiverIsRegister(ev.site)
  /\ ReceiverRegister(ev.site) \notin ReturnTargets
  /\ Reg(CallerBefore, ReceiverRegister(ev.site)) = VVoid
  /\ Tag(FinalThis) = "Number"
  /\ Reg(CallerAfter, ReceiverRegister(ev.site)) = FinalThis


-----------------------------------------------------------------------------
(* The ignore register as a destination (specification Spec) *)

\* The number of bytes the assembler writes for the value at pos
RECURSIVE ValueSize(_), ItemsSize(_)
ValueSize(pos) ==
  CASE ByteAt(bytecode, pos) \in {BtRegister, BtSignedByte} -> 2
    [] ByteAt(bytecode, pos) = BtPointer -> 3
    [] ByteAt(bytecode, pos) = BtNumber -> 9
    [] ByteAt(bytecode, pos) = BtString -> 2 + ByteAt(bytecode, pos + 1)
    [] ByteAt(bytecode, pos) = BtBigInt -> 3 + ByteAt(bytecode, pos + 2)
    [] ByteAt(bytecode, pos) \in {BtArray, BtObject} -> 1 + ItemsSize(pos + 1)
    [] OTHER -> 1
ItemsSize(pos) ==
  IF ByteAt(bytecode, pos) = BtEnd THEN 1
  ELSE ValueSize(pos) + ItemsSize(pos + ValueSize(pos))

\* The instruction the last step executed: where it starts, where its destination
\* operands are and where the next instruction starts
OpStart == Top(ev.pre).pos
DstAt ==
  CASE ev.op \in {Mov, OpNot} -> {OpStart + 1 + ValueSize(OpStart + 1)}
    [] ev.op \in {OpPlus, Sub, OpBind} ->
         {OpStart + 1 + ValueSize(OpStart + 1)
            + ValueSize(OpStart + 1 + ValueSize(OpStart + 1))}
    [] ev.op = UnpackIterRes -> {OpStart + 2, OpStart + 3}
OpEnd == (CHOOSE p \in DstAt : \A q \in DstAt : q <= p) + 1
Destinations == {ByteAt(bytecode, p) : p \in DstAt}

\* C17: a Mov, OpNot, OpPlus, Sub, Bind or UnpackIterRes that neither panics nor
\* throws continues at the instruction after its last operand and changes no register
\* but its destinations; a destination 0xFF is no register, so with nothing but
\* 0xFF as destination the registers are as they were.
C17_IgnoreSink ==
  (ev.op \in WritingOps /\ ev.kind \notin {"Panic", "Err"}) =>
    /\ ev.kind = "Continue"
    /\ Top(stack).pos = OpEnd
    /\ Len(Top(stack).registers) = Len(Top(ev.pre).registers)
    /\ \A i \in 0..(Len(Top(ev.pre).registers) - 1) :
         i \notin Destinations => Reg(Top(stack), i) = Reg(Top(ev.pre), i)
    /\ Destinations \subseteq {IgnoreRegister} => Top(stack).registers = Top(ev.pre).registers

\* C17 happens: an UnpackIterRes of a {value, done} object with 0xFF for both
\* destinations has left the registers as they were and stands at the next
\* instruction
C17_Unpack_Ignored ==
  /\ ev.op = UnpackIterRes /\ ev.kind = "Continue"
  /\ Destinations = {IgnoreRegister}
  /\ Tag(Reg(Top(ev.pre), 4)) = "Object"
  /\ Top(stack).registers = Top(ev.pre).registers
  /\ ByteAt(bytecode, Top(stack).pos) = Mov


-----------------------------------------------------------------------------
(* The entry of a run (specification Spec) *)

\* The tag of the entry value, behind a pointer when the bytecode starts with one
EntryTag ==
  IF ByteAt(bytecode, 0) = BtPointer
  THEN ByteAt(bytecode, ByteAt(bytecode, 1) + 256 * ByteAt(bytecode, 2))
  ELSE ByteAt(bytecode, 0)
EntryIsFunction == EntryTag \in {BtFunction, BtGeneratorFunction}

\* C18: a run that starts has the entry function's frame on the first frame; while
\* it runs there are at least two frames and the first frame is not stepped; it
\* returns when one frame is left, and what it returns is the return register the
\* entry frame had at its End, as the first frame's register 0 holds it.  When
\* the entry value is no function, run fails with no instruction executed.
C18_ModuleEntry ==
  /\ EntryIsFunction =>
       /\ (status = "running" /\ ev.op = -1) =>
            /\ Len(stack) = 2
            /\ stack[1] = FirstFrame
            /\ stack[2].pos = (IF ByteAt(bytecode, 0) = BtPointer
                               THEN ByteAt(bytecode, 1) + 256 * ByteAt(bytecode, 2) ELSE 0) + 3
       /\ status = "running" => Len(stack) >= 2
       /\ ev.op # -1 => Len(ev.pre) >= 2 /\ ev.pre[1] = ev.post[1]
       /\ status = "done" =>
            /\ Len(stack) = 1
            /\ ev.kind = "Pop" /\ Len(ev.pre) = 2
            /\ result = Reg(Top(ev.pre), 0)
            /\ result = Reg(stack[1], 0)
  /\ ~EntryIsFunction =>
       /\ status \in {"idle", "panic"}
       /\ ev = NoEvent
       /\ runNo > 0 => status = "panic"

\* C18 happens: the entry function, reached through a pointer, has returned its
\* parameter through the first frame
C18_Returned_To_First_Frame ==
  /\ status = "done" /\ Len(stack) = 1
  /\ ByteAt(bytecode, 0) = BtPointer
  /\ result = args.params[1]
  /\ Reg(stack[1], 0) = result

\* and a run of bytecode that starts with a number has failed before any step
C18_Entry_Not_A_Function ==
  /\ ~EntryIsFunction /\ status = "panic" /\ runNo = 1 /\ ev = NoEvent


-----------------------------------------------------------------------------
(* The keys of a decoded object (specification Spec) *)

\* The entries of the object encoded at pos (the Object tag is at pos - 1), as
\* written: the key string and where the value is
RECURSIVE EncodedEntries(_)
EncodedEntries(pos) ==
  IF ByteAt(bytecode, pos) = BtEnd THEN <<>>
  ELSE <<[key |-> Slice(bytecode, pos + 2, pos + 2 + ByteAt(bytecode, pos + 1)),
          value |-> pos + ValueSize(pos)]>>
       \o EncodedEntries(pos + ValueSize(pos) + ValueSize(pos + ValueSize(pos)))

\* The last step was a Mov of an inline object with string keys into a register
ObjectMoved ==
  /\ ev.op = Mov /\ ev.kind = "Continue"
  /\ ByteAt(bytecode, OpStart + 1) = BtObject
  /\ Destinations # {IgnoreRegister}
Written == EncodedEntries(OpStart + 2)
DecodedMap == Reg(Top(ev.post), CHOOSE d \in Destinations : TRUE)[2]
ValueWritten(i) ==
  DecodeVal(bytecode, Written[i].value, Top(ev.pre).registers, {}, MaxDecodeDepth).val

\* The keys in the order of their first appearance
RECURSIVE FirstAppearances(_)
FirstAppearances(keys) ==
  IF Len(keys) = 0 THEN <<>>
  ELSE LET front == FirstAppearances(SubSeq(keys, 1, Len(keys) - 1))
       IN IF \E i \in 1..Len(front) : front[i] = keys[Len(keys)] THEN front
          ELSE Append(front, keys[Len(keys)])

-----------------------------------------------------------------------------
(* The front ends: run_to_result of valuescript_wasm and main of bench.      *)
(* Each compiles, looks at the diagnostics, assembles and runs.              *)

DiagnosticLevel == {"Lint", "CompilerDebug", "Error", "InternalError"}

\* What compile gives: the diagnostics (their levels, in order) and, for bench,
\* whether compile_result.module is Some
CompilerOutputs ==
  {[diagnostics |-> d, module |-> m] :
     d \in UNION {[1..n -> DiagnosticLevel] : n \in 0..MaxDiagnostics}, m \in BOOLEAN}

\* The mutant of the loop over the diagnostics: InternalError is let through
RECURSIVE have_compiler_errors_lax(_)
have_compiler_errors_lax(diagnostics) ==
  IF Len(diagnostics) = 0 THEN FALSE
  ELSE IF Head(diagnostics) = "Error" THEN TRUE
  ELSE have_compiler_errors_lax(Tail(diagnostics))

\* run_to_result: the loop that sets have_compiler_errors
RECURSIVE have_compiler_errors(_)
have_compiler_errors(diagnostics) ==
  IF Len(diagnostics) = 0 THEN FALSE
  ELSE IF Head(diagnostics) \in {"Error", "InternalError"} THEN TRUE
  ELSE have_compiler_errors(Tail(diagnostics))

\* bench: the loop that inserts the file into failed_paths
RECURSIVE InsertFailed(_, _, _)
InsertFailed(failed_paths, file_path, diagnostics) ==
  IF Len(diagnostics) = 0 THEN failed_paths
  ELSE InsertFailed(IF Head(diagnostics) \in {"Error", "InternalError"}
                    THEN failed_paths \cup {file_path} ELSE failed_paths,
                    file_path, Tail(diagnostics))

InitGate ==
  /\ \E front \in {"wasm", "bench"}, files \in 1..MaxFiles :
       /\ front = "wasm" => files = 1
       /\ drv = [front |-> front, files |-> files, file |-> 1, pc |-> "compile",
                 output |-> [diagnostics |-> <<>>, module |-> TRUE],
                 assembled |-> {}, executed |-> {}, erred |-> {},
                 failed_paths |-> {}, outcome |-> ""]
  /\ VmIdle
  /\ dec = Idle /\ cow = Idle /\ cap = Idle /\ tdz = Idle /\ cmp = Idle /\ low = Idle

GateIdle == UNCHANGED <<vmVars, dec, cow, cap, tdz, cmp, low>>

\* valuescript_compiler::compile (run_to_result always has an assembly)
Compile ==
  /\ drv.pc = "compile"
  /\ \E o \in CompilerOutputs :
       /\ drv.front = "wasm" => o.module
       /\ drv' = [drv EXCEPT !.output = o,
                             !.pc = IF drv.front = "wasm" THEN "gate" ELSE "diagnostics",
                             !.erred = IF \E i \in 1..Len(o.diagnostics) :
                                             o.diagnostics[i] \in {"Error", "InternalError"}
                                        THEN @ \cup {drv.file} ELSE @]
  /\ GateIdle

\* run_to_result: with compiler errors it returns Err("Compile failed")
WasmGate ==
  /\ drv.pc = "gate"
  /\ drv' = IF have_compiler_errors(drv.output.diagnostics)
            THEN [drv EXCEPT !.pc = "returned", !.outcome = "Compile failed"]
            ELSE [drv EXCEPT !.pc = "assemble"]
  /\ GateIdle

\* bench: the diagnostics of the file are looked at, then the module is expected
BenchDiagnostics ==
  /\ drv.pc = "diagnostics"
  /\ drv' = [drv EXCEPT !.failed_paths = InsertFailed(@, drv.file, drv.output.diagnostics),
                        !.pc = "module"]
  /\ GateIdle

BenchModule ==
  /\ drv.pc = "module"
  /\ drv' = IF drv.output.module THEN [drv EXCEPT !.pc = "assemble"]
            ELSE [drv EXCEPT !.pc = "panicked",
                             !.outcome = "Should have exited if module is None"]
  /\ GateIdle

\* assemble
AssembleModule ==
  /\ drv.pc = "assemble"
  /\ drv' = [drv EXCEPT !.assembled = @ \cup {drv.file}, !.pc = "run"]
  /\ GateIdle

\* vm.run: run_to_result returns Ok(result.codify()); bench asserts on an Err result
\* and goes on to the next file
RunModule ==
  /\ drv.pc = "run"
  /\ \E ok \in BOOLEAN :
       /\ drv.front = "wasm" => ok
       /\ drv' = IF drv.front = "wasm"
                 THEN [drv EXCEPT !.executed = @ \cup {drv.file}, !.pc = "returned", !.outcome = "Ok"]
                 ELSE IF ~ok
                 THEN [drv EXCEPT !.executed = @ \cup {drv.file}, !.pc = "panicked",
                                  !.outcome = "assert: result.codify()"]
                 ELSE IF drv.file < drv.files
                 THEN [drv EXCEPT !.executed = @ \cup {drv.file}, !.pc = "compile", !.file = @ + 1]
                 ELSE [drv EXCEPT !.executed = @ \cup {drv.file}, !.pc = "finish"]
  /\ GateIdle

\* bench: after the last file
BenchFinish ==
  /\ drv.pc = "finish"
  /\ drv' = IF drv.failed_paths # {}
            THEN [drv EXCEPT !.pc = "panicked", !.outcome = "assert: See failures above"]
            ELSE [drv EXCEPT !.pc = "returned", !.outcome = "Ok"]
  /\ GateIdle

NextGate ==
  \/ Compile
  \/ WasmGate
  \/ BenchDiagnostics
  \/ BenchModule
  \/ AssembleModule
  \/ RunModule
  \/ BenchFinish

SpecGate == InitGate /\ [][NextGate]_vars

\* The current file's compilation gave an Error or InternalError diagnostic
Erred == drv.file \in drv.erred
Checked == drv.pc \notin {"compile", "gate", "diagnostics"}

\* C14: in run_to_result a compilation with an Error or InternalError diagnostic is
\* neither assembled nor run and the result is "Compile failed", and one with none
\* is assembled and run; in bench such a file is put into failed_paths, which fails
\* the run after the last file, but it is assembled and run like any other file
\* whose module is there.  Lint and CompilerDebug diagnostics alone change nothing.
C14_DiagnosticsGate ==
  /\ drv.front = "wasm" =>
       /\ Erred => drv.file \notin drv.assembled \cup drv.executed
       /\ (Erred /\ drv.pc = "returned") => drv.outcome = "Compile failed"
       /\ (~Erred /\ drv.pc = "returned") =>
            drv.outcome = "Ok" /\ drv.file \in drv.assembled \cap drv.executed
  /\ drv.front = "bench" =>
       /\ Checked => drv.failed_paths = drv.erred
       /\ drv.pc = "returned" => drv.erred = {}
       /\ (drv.pc \in {"run", "finish"} \/ drv.outcome = "assert: See failures above") =>
            drv.file \in drv.assembled
       /\ (drv.pc = "finish" \/ drv.outcome = "assert: See failures above") =>
            drv.executed = 1..drv.files

\* C14 as stated: a compilation with an Error or InternalError diagnostic is
\* neither assembled nor run
C14_NeverAssembled ==
  \A f \in drv.erred : f \notin drv.assembled \cup drv.executed

\* C14 happens: run_to_result has returned "Compile failed" for a compilation whose
\* only failing diagnostic is an InternalError after a Lint
C14_Compile_Failed ==
  /\ drv.front = "wasm" /\ drv.pc = "returned" /\ drv.outcome = "Compile failed"
  /\ drv.output.diagnostics = <<"Lint", "InternalError">>
  /\ drv.assembled = {} /\ drv.executed = {}

\* and bench has run a file whose compilation gave an Error
C14_Bench_Ran_Failed_File ==
  /\ drv.front = "bench" /\ drv.outcome = "assert: See failures above"
  /\ drv.erred \cap drv.executed # {}


-----------------------------------------------------------------------------
(* FunctionCompiler::statement of vstc on loops, break and continue.  The    *)
(* recursion of statement is a list of what is still to do: a statement (by  *)
(* its path in the body) or the rest of an arm after the statement it        *)
(* contains.                                                                 *)

\* Statements: <<"Break", labelled>>, <<"Continue", labelled>>, <<"Return">>,
\* <<"While", body>>, <<"DoWhile", body>>, <<"For", body>>, <<"If", cons>>,
\* <<"Block", <<stmt, stmt>>>>
LoopKinds == {"While", "DoWhile", "For"}
Jumps == {<<"Break", FALSE>>, <<"Continue", FALSE>>}
SimpleStatements == Jumps \cup {<<"Break", TRUE>>, <<"Continue", TRUE>>, <<"Return">>}

RECURSIVE Statements(_)
Statements(depth) ==
  IF depth = 0 THEN SimpleStatements
  ELSE SimpleStatements
       \cup {<<k, b>> : k \in LoopKinds \cup {"If"}, b \in Statements(depth - 1)}
       \cup {<<"Block", <<a, b>>>> : a \in Statements(depth - 1), b \in Jumps}

\* The statement at a path of child indexes
RECURSIVE StatementAt(_, _)
StatementAt(stmt, path) ==
  IF Len(path) = 0 THEN stmt
  ELSE StatementAt(IF stmt[1] = "Block" THEN stmt[2][Head(path)] ELSE stmt[2], Tail(path))

\* label_allocator.allocate_numbered: a name no other allocation gives
AllocateNumbered(prefix, n) == <<prefix, n>>

\* The mutant of loop_labels.last(): the outermost entry
FirstLabels(loop_labels) == loop_labels[1]

\* self.loop_labels.last()
LastLabels(loop_labels) == loop_labels[Len(loop_labels)]

InitLoops ==
  /\ \E body \in Statements(MaxNest) :
       cmp = [body |-> body,
              todo |-> <<[do |-> "statement", path |-> <<>>]>>,
              loop_labels |-> <<>>,
              definition |-> <<>>,
              labels |-> 0,
              loops |-> {},
              panicked |-> FALSE,
              last |-> [arm |-> "", path |-> <<>>, before |-> <<>>],
              pc |-> 1,
              tested |-> {},
              back |-> ""]
  /\ VmIdle
  /\ dec = Idle /\ cow = Idle /\ cap = Idle /\ tdz = Idle /\ drv = Idle /\ low = Idle

LoopsIdle == UNCHANGED <<vmVars, dec, cow, cap, tdz, drv, low>>

\* statement is called on the statement at the head of what is to do
AtStatement(kind) ==
  /\ ~cmp.panicked
  /\ Len(cmp.todo) > 0
  /\ Head(cmp.todo).do = "statement"
  /\ StatementAt(cmp.body, Head(cmp.todo).path)[1] = kind

\* the rest of an arm is reached
AtRest(kind) ==
  /\ ~cmp.panicked
  /\ Len(cmp.todo) > 0
  /\ Head(cmp.todo).do = kind

Here == Head(cmp.todo).path
Arm(name) == [arm |-> name, path |-> Here, before |-> cmp.loop_labels]
Statement(path) == [do |-> "statement", path |-> path]
Rest(kind, labels) == [do |-> kind, path |-> Here, before |-> cmp.loop_labels, labels |-> labels]

\* Break, Continue: a label gives a diagnostic and nothing else; without an
\* enclosing loop the expect panics
Jump(kind, label_of(_)) ==
  /\ AtStatement(kind)
  /\ cmp' = IF StatementAt(cmp.body, Here)[2]
            THEN [cmp EXCEPT !.todo = Tail(@), !.last = Arm(kind \o " labelled")]
            ELSE IF Len(cmp.loop_labels) = 0
            THEN [cmp EXCEPT !.panicked = TRUE, !.last = Arm(kind \o " outside loop")]
            ELSE [cmp EXCEPT !.todo = Tail(@),
                             !.definition = Append(@, <<"jmp", label_of(LastLabels(cmp.loop_labels))>>),
                             !.last = Arm(kind)]
  /\ LoopsIdle

BreakLabel(loop_labels) == loop_labels.break_
ContinueLabel(loop_labels) == loop_labels.continue_

StmtBreak == Jump("Break", BreakLabel)
StmtContinue == Jump("Continue", ContinueLabel)

\* Return
StmtReturn ==
  /\ AtStatement("Return")
  /\ cmp' = [cmp EXCEPT !.todo = Tail(@), !.definition = Append(@, <<"end">>),
                        !.last = Arm("Return")]
  /\ LoopsIdle

\* Block: its statements one after the other
StmtBlock ==
  /\ AtStatement("Block")
  /\ cmp' = [cmp EXCEPT !.todo = <<Statement(Append(Here, 1)), Statement(Append(Here, 2)),
                                   Rest("EndBlock", <<>>)>> \o Tail(@),
                        !.last = Arm("Block")]
  /\ LoopsIdle

EndBlock ==
  /\ AtRest("EndBlock")
  /\ cmp' = [cmp EXCEPT !.todo = Tail(@),
                        !.last = [arm |-> "EndBlock", path |-> Here, before |-> Head(cmp.todo).before]]
  /\ LoopsIdle

\* If without else: the condition, a jump to the else label, the consequent, the label
StmtIf ==
  /\ AtStatement("If")
  /\ Bind(AllocateNumbered("else", cmp.labels), LAMBDA else_label :
       cmp' = [cmp EXCEPT !.labels = @ + 1,
                          !.definition = @ \o <<<<"op!">>, <<"jmpif", else_label>>>>,
                          !.todo = <<Statement(Append(Here, 1)), Rest("EndIf", <<else_label>>)>>
                                     \o Tail(@),
                          !.last = Arm("If")])
  /\ LoopsIdle

EndIf ==
  /\ AtRest("EndIf")
  /\ cmp' = [cmp EXCEPT !.todo = Tail(@),
                        !.definition = Append(@, <<"label", Head(cmp.todo).labels[1]>>),
                        !.last = [arm |-> "EndIf", path |-> Here, before |-> Head(cmp.todo).before]]
  /\ LoopsIdle

\* The three loops allocate their labels, push a LoopLabels entry and compile the
\* body; the rest of the arm pops the entry
Loop(kind, rest, labels, entry, lines) ==
  /\ AtStatement(kind)
  /\ cmp' = [cmp EXCEPT !.labels = @ + Len(labels),
                        !.loop_labels = Append(@, entry),
                        !.loops = @ \cup {<<Here, entry>>},
                        !.definition = @ \o lines,
                        !.todo = <<Statement(Append(Here, 1)), Rest(rest, labels)>> \o Tail(@),
                        !.last = Arm(kind)]
  /\ LoopsIdle

EndLoop(rest, lines) ==
  /\ AtRest(rest)
  /\ cmp' = [cmp EXCEPT !.todo = Tail(@),
                        !.definition = @ \o lines,
                        !.loop_labels = SubSeq(@, 1, Len(@) - 1),
                        !.last = [arm |-> rest, path |-> Here, before |-> Head(cmp.todo).before]]
  /\ LoopsIdle

\* While: labels while (continue) and while_end (break)
StmtWhile ==
  Bind(<<AllocateNumbered("while", cmp.labels), AllocateNumbered("while_end", cmp.labels + 1)>>,
       LAMBDA l :
         Loop("While", "EndWhile", l, [continue_ |-> l[1], break_ |-> l[2]],
              <<<<"label", l[1]>>, <<"op!">>, <<"jmpif", l[2]>>>>))

EndWhile ==
  AtRest("EndWhile") /\
  EndLoop("EndWhile", <<<<"jmp", Head(cmp.todo).labels[1]>>, <<"label", Head(cmp.todo).labels[2]>>>>)

\* DoWhile: labels do_while, do_while_continue (continue) and do_while_end (break)
StmtDoWhile ==
  Bind(<<AllocateNumbered("do_while", cmp.labels),
         AllocateNumbered("do_while_continue", cmp.labels + 1),
         AllocateNumbered("do_while_end", cmp.labels + 2)>>,
       LAMBDA l :
         Loop("DoWhile", "EndDoWhile", l, [continue_ |-> l[2], break_ |-> l[3]],
              <<<<"label", l[1]>>>>))

\* The test is compiled after the body and before the continue label is written;
\* a test that is a variable or a literal gives no instruction, any other test
\* gives the instructions that compute the operand of the jmpif
EndDoWhile ==
  AtRest("EndDoWhile") /\
  \E instructions \in BOOLEAN :
    EndLoop("EndDoWhile",
            (IF instructions THEN <<<<"test", Head(cmp.todo).labels[1]>>>> ELSE <<>>)
            \o <<<<"label", Head(cmp.todo).labels[2]>>, <<"jmpif", Head(cmp.todo).labels[1]>>,
                 <<"label", Head(cmp.todo).labels[3]>>>>)

\* For: labels for_test, for_continue (continue) and for_end (break)
StmtFor ==
  Bind(<<AllocateNumbered("for_test", cmp.labels),
         AllocateNumbered("for_continue", cmp.labels + 1),
         AllocateNumbered("for_end", cmp.labels + 2)>>,
       LAMBDA l :
         Loop("For", "EndFor", l, [continue_ |-> l[2], break_ |-> l[3]],
              <<<<"label", l[1]>>, <<"op!">>, <<"jmpif", l[3]>>>>))

EndFor ==
  AtRest("EndFor") /\
  EndLoop("EndFor", <<<<"label", Head(cmp.todo).labels[2]>>, <<"jmp", Head(cmp.todo).labels[1]>>,
                      <<"label", Head(cmp.todo).labels[3]>>>>)

\* The emitted lines are run, once the function is compiled: pc is the line to
\* run next, a jmpif goes either way, end and the last line return.  tested holds
\* the do...while loops (by start label) whose test instructions have run since
\* the start label was passed; back tells of the last jmpif of a do...while whether
\* its operand was computed in this iteration
Running(kind) ==
  /\ ~cmp.panicked
  /\ Len(cmp.todo) = 0
  /\ cmp.pc \in 1..Len(cmp.definition)
  /\ cmp.definition[cmp.pc][1] = kind
Line == cmp.definition[cmp.pc]
LabelLine(label) == CHOOSE i \in 1..Len(cmp.definition) : cmp.definition[i] = <<"label", label>>
HasTest(label) == \E i \in 1..Len(cmp.definition) : cmp.definition[i] = <<"test", label>>

RunLabel ==
  /\ Running("label")
  /\ cmp' = [cmp EXCEPT !.pc = @ + 1, !.back = "",
                        !.tested = IF Line[2][1] = "do_while" THEN @ \ {Line[2]} ELSE @]
  /\ LoopsIdle

RunTest ==
  /\ Running("test")
  /\ cmp' = [cmp EXCEPT !.pc = @ + 1, !.back = "", !.tested = @ \cup {Line[2]}]
  /\ LoopsIdle

RunOpNot ==
  /\ Running("op!")
  /\ cmp' = [cmp EXCEPT !.pc = @ + 1, !.back = ""]
  /\ LoopsIdle

RunJmp ==
  /\ Running("jmp")
  /\ cmp' = [cmp EXCEPT !.pc = LabelLine(Line[2]), !.back = ""]
  /\ LoopsIdle

RunJmpIf ==
  /\ Running("jmpif")
  /\ \E taken \in BOOLEAN :
       cmp' = [cmp EXCEPT !.pc = IF taken THEN LabelLine(Line[2]) ELSE @ + 1,
                          !.back = IF Line[2][1] # "do_while" THEN ""
                                   ELSE IF HasTest(Line[2]) /\ Line[2] \notin cmp.tested
                                   THEN "stale" ELSE "tested"]
  /\ LoopsIdle

RunEnd ==
  /\ Running("end")
  /\ cmp' = [cmp EXCEPT !.pc = Len(cmp.definition) + 1, !.back = ""]
  /\ LoopsIdle

NextLoops ==
  \/ RunLabel
  \/ RunTest
  \/ RunOpNot
  \/ RunJmp
  \/ RunJmpIf
  \/ RunEnd
  \/ StmtBreak
  \/ StmtContinue
  \/ StmtReturn
  \/ StmtBlock
  \/ EndBlock
  \/ StmtIf
  \/ EndIf
  \/ StmtWhile
  \/ EndWhile
  \/ StmtDoWhile
  \/ EndDoWhile
  \/ StmtFor
  \/ EndFor

SpecLoops == InitLoops /\ [][NextLoops]_vars

\* The loops around the statement at path, the innermost last
EnclosingLoops(path) ==
  {n \in 0..(Len(path) - 1) : StatementAt(cmp.body, SubSeq(path, 1, n))[1] \in LoopKinds}
Innermost(path) ==
  SubSeq(path, 1, CHOOSE n \in EnclosingLoops(path) : \A m \in EnclosingLoops(path) : m <= n)
LabelsOf(path) == (CHOOSE e \in cmp.loops : e[1] = path)[2]
LastLine == cmp.definition[Len(cmp.definition)]

\* C20: a break or continue without label inside a loop has written a jmp to the
\* break or continue label of the innermost loop around it; while the body of a
\* loop is compiled loop_labels is the stack of before with that loop's entry on
\* it, and when an arm has ended loop_labels is what it was when the arm began.
C20_LoopLabels ==
  /\ (cmp.last.arm = "Break" /\ EnclosingLoops(cmp.last.path) # {}) =>
       LastLine = <<"jmp", LabelsOf(Innermost(cmp.last.path)).break_>>
  /\ (cmp.last.arm = "Continue" /\ EnclosingLoops(cmp.last.path) # {}) =>
       LastLine = <<"jmp", LabelsOf(Innermost(cmp.last.path)).continue_>>
  /\ cmp.last.arm \in LoopKinds =>
       /\ cmp.loop_labels = Append(cmp.last.before, LabelsOf(cmp.last.path))
       /\ \A e \in cmp.loops : e[1] # cmp.last.path =>
            e[2].break_ # LabelsOf(cmp.last.path).break_
  /\ cmp.last.arm \notin LoopKinds \cup {""} => cmp.loop_labels = cmp.last.before
  /\ (~cmp.panicked /\ Len(cmp.todo) = 0) => cmp.loop_labels = <<>>
  /\ cmp.panicked => EnclosingLoops(cmp.last.path) = {}

\* C20 happens: a break in a loop inside a loop has been compiled to a jmp to the
\* inner loop's break label, with two entries on loop_labels
C20_Break_In_Inner_Loop ==
  /\ cmp.last.arm = "Break"
  /\ Cardinality(EnclosingLoops(cmp.last.path)) = 2
  /\ Len(cmp.loop_labels) = 2
  /\ LastLine = <<"jmp", cmp.loop_labels[2].break_>>
  /\ cmp.loop_labels[1].break_ # cmp.loop_labels[2].break_


-----------------------------------------------------------------------------
(* The lowering of do...while (specification SpecLoops) *)

\* C21: whenever the jmpif that ends a do...while loop runs, by falling out of the
\* body or by the jmp of a continue, the instructions of the loop's test have run
\* since the iteration began.
C21_DoWhileTest == cmp.back # "stale"

\* The path that falls out of the body does run the test: the line before the
\* continue label of a loop whose test has instructions is the test
C21_FallThroughTested ==
  \A i \in 1..Len(cmp.definition) :
    (cmp.definition[i][1] = "label" /\ cmp.definition[i][2][1] = "do_while_continue"
     /\ HasTest(<<"do_while", cmp.definition[i][2][2] - 1>>)) =>
      /\ i > 1
      /\ cmp.definition[i - 1] = <<"test", <<"do_while", cmp.definition[i][2][2] - 1>>>>
      /\ cmp.definition[i + 1] = <<"jmpif", <<"do_while", cmp.definition[i][2][2] - 1>>>>

\* The jmpif of do { continue } while (test) has run with the test's instructions
\* jumped over
C21_Continue_Skips_Test ==
  /\ cmp.body = <<"DoWhile", <<"Continue", FALSE>>>>
  /\ cmp.definition = <<<<"label", <<"do_while", 0>>>>, <<"jmp", <<"do_while_continue", 1>>>>,
                        <<"test", <<"do_while", 0>>>>, <<"label", <<"do_while_continue", 1>>>>,
                        <<"jmpif", <<"do_while", 0>>>>, <<"label", <<"do_while_end", 2>>>>>>
  /\ cmp.back = "stale"


-----------------------------------------------------------------------------
(* ExpressionCompiler on one expression: the lines it pushes, and those lines *)
(* run on a register file (specification SpecLower).                          *)

\* An operand of a line is Register(name) or a value; a destination is a name
IsRegister(operand) == operand[1] = "Register"
Variables == {"a", "b", "i", "res"}
Temporaries ==
  {"_tmp" \o ToString(n) : n \in 0..(MaxPath + 1)} \cup {"_iter0", "_iter_res0", "_done0"}
KeyX == <<120>>
KeyY == <<121>>

\* reg_allocator.allocate_numbered: the first of prefix0, prefix1, .. not in use
AllocateRegister(used, prefix) ==
  prefix \o ToString(CHOOSE n \in 0..Cardinality(used) :
                       /\ (prefix \o ToString(n)) \notin used
                       /\ \A m \in 0..(n - 1) : (prefix \o ToString(m)) \in used)

\* self.fnc.definition.push, reg_allocator.allocate_numbered and release on the
\* state of the function compiler; the release of a register that is not in use
\* is remembered in released_twice
Push(fnc, line) == [fnc EXCEPT !.definition = Append(@, line)]
Allocated(fnc, reg) == [fnc EXCEPT !.used = @ \cup {reg}]
Released(fnc, reg) ==
  [fnc EXCEPT !.used = @ \ {reg},
              !.released_twice = IF reg \in fnc.used THEN @ ELSE @ \cup {reg}]

\* A member's subscript: a name gives a string, a computed subscript is compiled
\* (a variable compiles to its register and pushes nothing)
Subscript(prop) == IF prop[1] = "Computed" THEN Register(prop[2]) ELSE VString(prop[2])

\* TargetAccessor::register
TargetRegister(at) == IF at[1] = "Register" THEN at[2] ELSE at[4]

\* TargetAccessor::compile on the lvalue root.path[1]. .. .path[n]: Register(reg) for
\* an identifier, <<"Nested", obj, subscript, register>> for a member
RECURSIVE TargetCompile(_, _, _)
TargetCompile(fnc, root, path) ==
  IF Len(path) = 0 THEN [fnc |-> fnc, at |-> Register(root)]
  ELSE Bind(TargetCompile(fnc, root, SubSeq(path, 1, Len(path) - 1)), LAMBDA obj :
       Bind(AllocateRegister(obj.fnc.used, "_tmp"), LAMBDA register :
         [fnc |-> Push(Allocated(obj.fnc, register),
                       <<"sub", Register(TargetRegister(obj.at)), Subscript(path[Len(path)]),
                         register>>),
          at |-> <<"Nested", obj.at, Subscript(path[Len(path)]), register>>]))

\* The mutant of packup: the innermost temporary is written back and no other
PackupInnermost(fnc, at) ==
  IF at[1] = "Register" THEN fnc
  ELSE Released(Push(fnc, <<"submov", at[3], Register(at[4]), TargetRegister(at[2])>>), at[4])

\* TargetAccessor::packup
RECURSIVE Packup(_, _)
Packup(fnc, at) ==
  IF at[1] = "Register" THEN fnc
  ELSE Packup(Released(Push(fnc, <<"submov", at[3], Register(at[4]), TargetRegister(at[2])>>),
                       at[4]),
              at[2])

\* CompiledExpression::new: the operand that holds the value, the temporaries the
\* caller is to release, and the release checker that has unreleased registers
\* when there are any
CompiledExpression(fnc, value, nested_registers) ==
  [fnc |-> fnc, value |-> value, nested_registers |-> nested_registers,
   release_checker |-> Len(nested_registers) > 0]

\* The register a result goes to: target_register, or a new temporary that
\* becomes a nested register
ResultRegister(fnc, target_register) ==
  IF IsSome(target_register)
  THEN [fnc |-> fnc, reg |-> Unwrap(target_register), nested_registers |-> <<>>]
  ELSE Bind(AllocateRegister(fnc.used, "_tmp"), LAMBDA res :
         [fnc |-> Allocated(fnc, res), reg |-> res, nested_registers |-> <<res>>])

\* ExpressionCompiler::update_expression (vstc)
update_expression(fnc, update_exp, target_register) ==
  Bind(TargetCompile(fnc, update_exp.root, update_exp.path), LAMBDA target :
    IF update_exp.prefix
    THEN Bind(Push(target.fnc, <<update_exp.op, TargetRegister(target.at)>>), LAMBDA f :
           IF target.at[1] = "Register"
           THEN CompiledExpression(Packup(f, target.at), target.at, <<>>)
           ELSE Bind(ResultRegister(f, target_register), LAMBDA res :
                  CompiledExpression(
                    Packup(Push(res.fnc, <<"mov", Register(target.at[4]), res.reg>>), target.at),
                    Register(res.reg), res.nested_registers)))
    ELSE Bind(ResultRegister(target.fnc, target_register), LAMBDA old_value_reg :
           CompiledExpression(
             Packup(Push(Push(old_value_reg.fnc,
                              <<"mov", Register(TargetRegister(target.at)), old_value_reg.reg>>),
                         <<update_exp.op, TargetRegister(target.at)>>),
                    target.at),
             Register(old_value_reg.reg), old_value_reg.nested_registers)))

\* FunctionCompiler::use_ and use_ref: the nested registers of a compiled
\* expression are released, and its release checker is satisfied
RECURSIVE ReleasedRegisters(_, _)
ReleasedRegisters(fnc, regs) ==
  IF Len(regs) = 0 THEN fnc ELSE ReleasedRegisters(Released(fnc, Head(regs)), Tail(regs))
use_(fnc, ce) == ReleasedRegisters(fnc, ce.nested_registers)

\* The mutant of Cleared: the release checker is left as it was
NotCleared(ce) == ce

\* x.release_checker.has_unreleased_registers = false
Cleared(ce) == [ce EXCEPT !.release_checker = FALSE]

\* ReleaseChecker::drop, where a compiled expression goes out of scope: the
\* assertion fails when the checker still has unreleased registers
Dropped(fnc, ce) == IF ce.release_checker THEN [fnc EXCEPT !.dropped = TRUE] ELSE fnc

\* TargetAccessor::is_eligible_expr on the receivers modelled: an identifier
is_eligible_expr(expr) == expr[1] \in {"Ident", "Mutated"}

\* An expression is <<"Lit", value>>, <<"Ident", name>> (a variable without
\* mutations), <<"Mutated", name>> (a variable with mutations), <<"Update", name>>
\* (++name), <<"Bin", left, right>> (left + right), <<"Logical", left, right, op>>,
\* <<"Member", obj, prop>>, <<"Call", callee, args>>,
\* <<"MethodCall", obj, prop, args>> or <<"Array", args>>; a prop is <<"Name">> (.x) or
\* <<"Computed", expr>>, args is a list of <<spread, expr>>
RECURSIVE compile(_, _, _)

\* ExpressionCompiler::identifier on a variable in a register
identifier(fnc, ident, target_register) ==
  IF ident[1] = "Ident" THEN CompiledExpression(fnc, Register(ident[2]), <<>>)
  ELSE Bind(AllocateRegister(fnc.used, "_tmp"), LAMBDA new_reg :
         CompiledExpression(Push(Allocated(fnc, new_reg), <<"mov", Register(ident[2]), new_reg>>),
                            Register(new_reg), <<new_reg>>))

\* make_binary_op: the instruction of a binary operator
make_binary_op(op) ==
  CASE op = "Add" -> "op+"
    [] op = "LogicalOr" -> "op||"
    [] op = "LogicalAnd" -> "op&&"
    [] op = "NullishCoalescing" -> "op??"

\* ExpressionCompiler::binary_expression: the left and the right side are compiled,
\* whatever the operator is, and one instruction of the operator follows
binary_expression(fnc, bin, target_register) ==
  Bind(compile(fnc, bin[2], None), LAMBDA left :
  Bind(compile(left.fnc, bin[3], None), LAMBDA right :
  Bind(ResultRegister(right.fnc, target_register), LAMBDA target :
    CompiledExpression(
      Push(use_(use_(target.fnc, left), right),
           <<make_binary_op(IF bin[1] = "Bin" THEN "Add" ELSE bin[4]),
             left.value, right.value, target.reg>>),
      Register(target.reg), target.nested_registers))))

\* ExpressionCompiler::member_prop
member_prop(fnc, prop, target_register) ==
  IF prop[1] = "Name" THEN CompiledExpression(fnc, VString(KeyX), <<>>)
  ELSE compile(fnc, prop[2], target_register)

\* ExpressionCompiler::member_expression
member_expression(fnc, member_exp, target_register) ==
  Bind(compile(fnc, member_exp[2], None), LAMBDA compiled_obj :
  Bind(member_prop(compiled_obj.fnc, member_exp[3], None), LAMBDA compiled_prop :
  Bind(ResultRegister(compiled_prop.fnc, target_register), LAMBDA dest :
    CompiledExpression(
      Push(use_(use_(dest.fnc, compiled_obj), compiled_prop),
           <<"sub", compiled_obj.value, compiled_prop.value, dest.reg>>),
      Register(dest.reg), dest.nested_registers))))

\* The loop of args over arg_list: each element is compiled, its value goes to
\* current or (spread) to segments, its nested registers are taken over and its
\* release checker is cleared before it goes out of scope
RECURSIVE ArgsLoop(_, _)
ArgsLoop(st, arg_list) ==
  IF Len(arg_list) = 0 THEN st
  ELSE Bind(Head(arg_list), LAMBDA arg :
       Bind(compile(st.fnc, arg[2], None), LAMBDA compiled_elem :
         ArgsLoop([fnc |-> Dropped(compiled_elem.fnc, Cleared(compiled_elem)),
                   segments |-> (IF arg[1] /\ Len(st.current) > 0
                                 THEN Append(st.segments, VArray(st.current)) ELSE st.segments)
                                \o (IF arg[1] THEN <<compiled_elem.value>> ELSE <<>>),
                   current |-> IF arg[1] THEN <<>> ELSE Append(st.current, compiled_elem.value),
                   sub_nested_registers |->
                     st.sub_nested_registers \o compiled_elem.nested_registers],
                  Tail(arg_list))))

\* ExpressionCompiler::args
compile_args(fnc, arg_list, target_register) ==
  Bind(ArgsLoop([fnc |-> fnc, segments |-> <<>>, current |-> <<>>,
                 sub_nested_registers |-> <<>>], arg_list), LAMBDA st :
    IF Len(st.segments) = 0
    THEN IF target_register = None
         THEN CompiledExpression(st.fnc, VArray(st.current), st.sub_nested_registers)
         ELSE CompiledExpression(
                ReleasedRegisters(Push(st.fnc, <<"mov", VArray(st.current),
                                                 Unwrap(target_register)>>),
                                  st.sub_nested_registers),
                Register(Unwrap(target_register)), <<>>)
    ELSE Bind(ResultRegister(ReleasedRegisters(st.fnc, st.sub_nested_registers),
                             target_register), LAMBDA res_reg :
           CompiledExpression(
             Push(res_reg.fnc,
                  <<"cat", VArray(st.segments \o (IF Len(st.current) > 0
                                                  THEN <<VArray(st.current)>> ELSE <<>>)),
                    res_reg.reg>>),
             Register(res_reg.reg), res_reg.nested_registers)))

\* ExpressionCompiler::call_expression
call_expression(fnc, call_exp, target_register) ==
  Bind(compile(fnc, call_exp[2], None), LAMBDA callee :
  Bind(compile_args(callee.fnc, call_exp[3], None), LAMBDA compiled_args :
  Bind(ResultRegister(compiled_args.fnc, target_register), LAMBDA dest :
    CompiledExpression(
      Push(use_(use_(dest.fnc, compiled_args), callee),
           <<"call", callee.value, compiled_args.value, dest.reg>>),
      Register(dest.reg), dest.nested_registers))))

\* ExpressionCompiler::method_call_expression: the receiver is a TargetAccessor (an
\* identifier: its register is read, nothing is packed up) or a compiled expression
method_call_expression(fnc, callee_expr, arg_list, target_register) ==
  Bind(IF is_eligible_expr(callee_expr[2])
       THEN CompiledExpression(fnc, Register(callee_expr[2][2]), <<>>)
       ELSE compile(fnc, callee_expr[2], None), LAMBDA obj :
  Bind(member_prop(obj.fnc, callee_expr[3], None), LAMBDA prop :
  Bind(compile_args(prop.fnc, arg_list, None), LAMBDA compiled_args :
  Bind(ResultRegister(compiled_args.fnc, target_register), LAMBDA dest :
  Bind(IF is_eligible_expr(callee_expr[2])
       THEN Push(use_(dest.fnc, compiled_args),
                 <<"subcall", obj.value, prop.value, compiled_args.value, dest.reg>>)
       ELSE use_(Push(use_(dest.fnc, compiled_args),
                      <<"constsubcall", obj.value, prop.value, compiled_args.value, dest.reg>>),
                 obj), LAMBDA f :
    CompiledExpression(
      Dropped(ReleasedRegisters(f, prop.nested_registers), Cleared(prop)),
      Register(dest.reg), dest.nested_registers))))))

\* ExpressionCompiler::compile
compile(fnc, expr, target_register) ==
  CASE expr[1] = "Lit" -> CompiledExpression(fnc, expr[2], <<>>)
    [] expr[1] \in {"Ident", "Mutated"} -> identifier(fnc, expr, target_register)
    [] expr[1] = "Update" ->
         update_expression(fnc, [op |-> "op++", prefix |-> TRUE, root |-> expr[2], path |-> <<>>],
                           target_register)
    [] expr[1] \in {"Bin", "Logical"} -> binary_expression(fnc, expr, target_register)
    [] expr[1] = "Member" -> member_expression(fnc, expr, target_register)
    [] expr[1] = "Call" -> call_expression(fnc, expr, target_register)
    [] expr[1] = "MethodCall" ->
         method_call_expression(fnc, expr, expr[4], target_register)
    [] expr[1] = "Array" -> compile_args(fnc, expr[2], target_register)

\* ExpressionCompiler::compile_into: a value that is in the target already is
\* used by reference, any other is used and moved into the target
compile_into(fnc, expr, target_register) ==
  Bind(compile(fnc, expr, Some(target_register)), LAMBDA compiled :
    IF IsRegister(compiled.value) /\ compiled.value[2] = target_register
    THEN Dropped(use_(compiled.fnc, compiled), Cleared(compiled))
    ELSE Push(use_(compiled.fnc, compiled), <<"mov", compiled.value, target_register>>))

\* The mutant of default_expr: no jmpif
default_expr_always(fnc, expr, register) ==
  Bind(AllocateRegister(fnc.used, "_tmp"), LAMBDA provided_reg :
    Push(compile_into(Released(Push(Allocated(fnc, provided_reg),
                                    <<"op!==", Register(register), VUndefined, provided_reg>>),
                               provided_reg),
                      expr, register),
         <<"label", register \o "_initialized">>))

\* ExpressionCompiler::default_expr
default_expr(fnc, expr, register) ==
  Bind(AllocateRegister(fnc.used, "_tmp"), LAMBDA provided_reg :
    Push(compile_into(Released(Push(Push(Allocated(fnc, provided_reg),
                                         <<"op!==", Register(register), VUndefined, provided_reg>>),
                                    <<"jmpif", Register(provided_reg), register \o "_initialized">>),
                               provided_reg),
                      expr, register),
         <<"label", register \o "_initialized">>))

\* ExpressionCompiler::pat on a pattern with one element that has a default: the
\* member is read into the element's register, then default_expr
pat(fnc, pattern, register) ==
  default_expr(Push(fnc, <<"sub", Register(register), pattern.key, pattern.name>>),
               pattern.init, pattern.name)

\* ExpressionCompiler::assign_expr_compound (valuescript_compiler) with a literal on
\* the right; read and assign_and_packup of its TargetAccessor as register and packup
assign_expr_compound(fnc, assign_expr, is_top_level, target_register) ==
  Bind(TargetCompile(fnc, assign_expr.root, assign_expr.path), LAMBDA target :
  Bind(ResultRegister(target.fnc, target_register), LAMBDA rhs_reg :
  Bind(TargetRegister(target.at), LAMBDA target_read :
  Bind(Push(Push(rhs_reg.fnc, <<"mov", assign_expr.right, rhs_reg.reg>>),
            <<assign_expr.op, Register(target_read), Register(rhs_reg.reg), target_read>>),
       LAMBDA f :
    CompiledExpression(
      Packup(IF is_top_level THEN f ELSE Push(f, <<"mov", Register(target_read), rhs_reg.reg>>),
             target.at),
      Register(rhs_reg.reg), rhs_reg.nested_registers)))))

\* ExpressionCompiler::assign_pat_eq with the variable a on the right
assign_pat_eq(fnc, pattern, right, target_register) ==
  Bind(ResultRegister(fnc, target_register), LAMBDA rhs_reg :
    CompiledExpression(pat(Push(rhs_reg.fnc, <<"mov", Register(right), rhs_reg.reg>>),
                           pattern, rhs_reg.reg),
                       Register(rhs_reg.reg), rhs_reg.nested_registers))

\* The mutant of yield_star_expr: the yield stands before the test of done
yield_star_expr_untested(fnc, arg, target_register) ==
  Bind(ResultRegister(fnc, target_register), LAMBDA dst :
    CompiledExpression(
      [dst.fnc EXCEPT !.definition =
         @ \o
         <<<<"constsubcall", arg, <<"Builtin", "SymbolIterator">>, VArray(<<>>), "_iter0">>,
           <<"jmp", "yield_star_next0">>,
           <<"label", "yield_star_test0">>,
           <<"yield", Register(dst.reg), "ignore">>,
           <<"jmpif", Register("_done0"), "yield_star_end0">>,
           <<"label", "yield_star_next0">>,
           <<"next", "_iter0", "_iter_res0">>,
           <<"unpack_iter_res", "_iter_res0", dst.reg, "_done0">>,
           <<"jmp", "yield_star_test0">>,
           <<"label", "yield_star_end0">>>>,
       !.used = @ \cup {"_iter0", "_iter_res0", "_done0"}],
      Register(dst.reg), dst.nested_registers))

\* ExpressionCompiler::yield_star_expr; the argument is compiled already
yield_star_expr(fnc, arg, target_register) ==
  Bind(ResultRegister(fnc, target_register), LAMBDA dst :
  Bind(<<AllocateRegister(dst.fnc.used, "_iter"), AllocateRegister(dst.fnc.used, "_iter_res"),
         AllocateRegister(dst.fnc.used, "_done")>>, LAMBDA reg :
  Bind(<<AllocateRegister({}, "yield_star_test"), AllocateRegister({}, "yield_star_next"),
         AllocateRegister({}, "yield_star_end")>>, LAMBDA label :
    CompiledExpression(
      [dst.fnc EXCEPT !.definition =
         @ \o
         <<<<"constsubcall", arg, <<"Builtin", "SymbolIterator">>, VArray(<<>>), reg[1]>>,
           <<"jmp", label[2]>>,
           <<"label", label[1]>>,
           <<"jmpif", Register(reg[3]), label[3]>>,
           <<"yield", Register(dst.reg), "ignore">>,
           <<"label", label[2]>>,
           <<"next", reg[1], reg[2]>>,
           <<"unpack_iter_res", reg[2], dst.reg, reg[3]>>,
           <<"jmp", label[1]>>,
           <<"label", label[3]>>>>,
       !.used = @ \cup {reg[1], reg[2], reg[3]}],
      Register(dst.reg), dst.nested_registers))))

\* The object whose members, MaxPath deep, are objects with the members x and y,
\* down to numbers that are all different
RECURSIVE Full(_, _)
Full(depth, n) ==
  IF depth = 0 THEN VNumber(n)
  ELSE VObject(<<<<KeyX, Full(depth - 1, 2 * n)>>, <<KeyY, Full(depth - 1, 2 * n + 1)>>>>,
               <<>>, None)

Props == {<<"Ident", KeyX>>, <<"Ident", KeyY>>, <<"Computed", "i">>}
Paths == UNION {[1..n -> Props] : n \in 0..MaxPath}

\* a.p1. .. .pn++ and --, before and behind, and a.p1. .. .pn += 2
Updates ==
  {[kind |-> "Update", op |-> op, prefix |-> prefix, root |-> "a", path |-> path,
    right |-> VNumber(0), is_top_level |-> FALSE] :
     op \in {"op++", "op--"}, prefix \in BOOLEAN, path \in Paths}
Compounds ==
  {[kind |-> "Compound", op |-> "op+", prefix |-> FALSE, root |-> "a", path |-> path,
    right |-> VNumber(2), is_top_level |-> top] : top \in BOOLEAN, path \in Paths}

\* The registers: the variables a, b, i hold values, the others undefined
RegisterFile(a, b, i) ==
  [r \in Variables \cup Temporaries |->
     CASE r = "a" -> a
       [] r = "b" -> b
       [] r = "i" -> i
       [] OTHER -> VUndefined]

AssignInputs ==
  {[exp |-> exp, target_register |-> target_register,
    registers |-> RegisterFile(Full(Len(exp.path), 1), Full(1, 1), VString(i))] :
     exp \in Updates \cup Compounds, target_register \in {None, Some("res")},
     i \in {KeyX, KeyY}}

\* The patterns {x: b = init}, {b = init} and [b = init] with init 9 or ++i,
\* assigned from a, which holds the member or not
KeyB == <<98>>
PatternForms == {<<"KeyValue", VString(KeyX)>>, <<"Assign", VString(KeyB)>>, <<"Array", VNumber(0)>>}
Initializers == {<<"Lit", VNumber(9)>>, <<"Update", "i">>}
Extracts ==
  {VUndefined, VNull, VBool(FALSE), VNumber(0), VString(<<>>), VNumber(7), Full(1, 1)}
Patterns ==
  {[kind |-> "Pattern", form |-> form[1], key |-> form[2], name |-> "b", init |-> init] :
     form \in PatternForms, init \in Initializers}
PatternInputs ==
  {[exp |-> exp, target_register |-> target_register,
    registers |-> RegisterFile(IF exp.form = "Array"
                               THEN VArray(IF held THEN <<extract>> ELSE <<>>)
                               ELSE VObject(IF held THEN <<<<exp.key[2], extract>>>> ELSE <<>>,
                                            <<>>, None),
                               VNumber(3), VNumber(1))] :
     exp \in Patterns, target_register \in {None, Some("res")},
     held \in BOOLEAN, extract \in Extracts}

\* yield* a, where a is iterable and its iterator gives the results of a list, each
\* with a value of its own and done or not, and { value: undefined, done: true }
\* from then on
DoneKey == <<100, 111, 110, 101>>
ValueKey == <<118, 97, 108, 117, 101>>
IterResObject(value, done) ==
  VObject(<<<<DoneKey, VBool(done)>>, <<ValueKey, value>>>>, <<>>, None)
ResultLists ==
  UNION {{[k \in 1..n |-> IterResObject(VNumber(10 + k), done[k])] : done \in [1..n -> BOOLEAN]} :
           n \in 0..MaxResults}
YieldStarInputs ==
  {[exp |-> [kind |-> "YieldStar", arg |-> Register("a")], target_register |-> target_register,
    registers |-> RegisterFile(<<"Iterable", results>>, VNumber(3), VNumber(1))] :
     results \in ResultLists, target_register \in {None, Some("res")}}

\* The expressions given to compile: a literal, the variable a (never mutated) and
\* the variable b (mutated somewhere in the function), and, MaxDepth deep, an
\* expression of each kind around one of those; the receiver of a method call is
\* an identifier or an expression that is no lvalue
Leaves == {<<"Lit", VNumber(1)>>, <<"Ident", "a">>, <<"Mutated", "b">>}
Around(h) ==
  {<<"Bin", h, <<"Lit", VNumber(1)>>>>,
   <<"Bin", <<"Mutated", "b">>, h>>,
   <<"Member", h, <<"Name">>>>,
   <<"Member", h, <<"Computed", <<"Mutated", "b">>>>>>,
   <<"Member", <<"Ident", "a">>, <<"Computed", h>>>>,
   <<"Call", h, <<>>>>,
   <<"Call", <<"Ident", "a">>, <<<<FALSE, h>>>>>>,
   <<"Call", <<"Mutated", "b">>, <<<<TRUE, h>>>>>>,
   <<"MethodCall", <<"Ident", "a">>, <<"Computed", h>>, <<>>>>,
   <<"MethodCall", <<"Ident", "a">>, <<"Name">>, <<<<FALSE, h>>>>>>,
   <<"MethodCall", <<"Lit", VNumber(1)>>, <<"Name">>, <<<<TRUE, h>>>>>>,
   <<"Array", <<<<FALSE, h>>>>>>,
   <<"Array", <<<<TRUE, h>>>>>>,
   <<"Array", <<<<FALSE, <<"Mutated", "b">>>>, <<TRUE, h>>, <<FALSE, <<"Lit", VNumber(1)>>>>>>>>}
  \cup (IF h[1] = "Member" THEN {}
        ELSE {<<"MethodCall", h, <<"Name">>, <<>>>>,
              <<"MethodCall", h, <<"Computed", <<"Mutated", "b">>>>,
                <<<<FALSE, <<"Mutated", "b">>>>>>>>})
RECURSIVE Exprs(_)
Exprs(depth) ==
  IF depth = 0 THEN Leaves
  ELSE Exprs(depth - 1) \cup UNION {Around(h) : h \in Exprs(depth - 1)}
ExprInputs ==
  {[exp |-> [kind |-> "Expr", expr |-> expr, into |-> into[1]], target_register |-> into[2],
    registers |-> RegisterFile(VUndefined, VUndefined, VUndefined)] :
     expr \in Exprs(MaxDepth), into \in {<<FALSE, None>>, <<FALSE, Some("res")>>, <<TRUE, Some("res")>>}}

\* a && ++i, a || ++i and a ?? ++i, where a is true, false, 0, null or undefined
\* and i is 3
LogicalOps == {"LogicalAnd", "LogicalOr", "NullishCoalescing"}
LogicalInputs ==
  {[exp |-> [kind |-> "Logical", expr |-> <<"Logical", <<"Ident", "a">>, <<"Update", "i">>, op>>],
    target_register |-> target_register,
    registers |-> RegisterFile(a, VNumber(1), VNumber(3))] :
     op \in LogicalOps, a \in {VBool(TRUE), VBool(FALSE), VNumber(0), VNull, VUndefined},
     target_register \in {None, Some("res")}}

InitLower ==
  /\ \E input \in AssignInputs \cup PatternInputs \cup YieldStarInputs \cup ExprInputs
                   \cup LogicalInputs :
       low = [exp |-> input.exp, target_register |-> input.target_register,
              fnc |-> [definition |-> <<>>, used |-> Variables, released_twice |-> {},
                       dropped |-> FALSE],
              value |-> "", nested_registers |-> <<>>,
              pc |-> 0, registers |-> input.registers, before |-> input.registers,
              trace |-> <<>>, yielded |-> <<>>]
  /\ VmIdle
  /\ dec = Idle /\ cow = Idle /\ cap = Idle /\ tdz = Idle /\ drv = Idle /\ cmp = Idle

LowerIdle == UNCHANGED <<vmVars, dec, cow, cap, tdz, drv, cmp>>

\* The expression is compiled: the lines are there, and the first is to run
Compiled(ce) ==
  low' = [low EXCEPT !.fnc = ce.fnc, !.value = ce.value[2],
                     !.nested_registers = ce.nested_registers, !.pc = 1]

CompileUpdate ==
  /\ low.pc = 0 /\ low.exp.kind = "Update"
  /\ Compiled(update_expression(low.fnc, low.exp, low.target_register))
  /\ LowerIdle

CompileCompound ==
  /\ low.pc = 0 /\ low.exp.kind = "Compound"
  /\ Compiled(assign_expr_compound(low.fnc, low.exp, low.exp.is_top_level, low.target_register))
  /\ LowerIdle

CompilePattern ==
  /\ low.pc = 0 /\ low.exp.kind = "Pattern"
  /\ Compiled(assign_pat_eq(low.fnc, low.exp, "a", low.target_register))
  /\ LowerIdle

CompileYieldStar ==
  /\ low.pc = 0 /\ low.exp.kind = "YieldStar"
  /\ Compiled(yield_star_expr(low.fnc, low.exp.arg, low.target_register))
  /\ LowerIdle

CompileLogical ==
  /\ low.pc = 0 /\ low.exp.kind = "Logical"
  /\ Compiled(compile(low.fnc, low.exp.expr, low.target_register))
  /\ LowerIdle

\* compile on an expression: the compiled expression is held by the caller; its
\* lines are not run
CompileExpression ==
  /\ low.pc = 0 /\ low.exp.kind = "Expr" /\ ~low.exp.into
  /\ Bind(compile(low.fnc, low.exp.expr, low.target_register), LAMBDA ce :
       low' = [low EXCEPT !.fnc = ce.fnc, !.value = ce.value,
                          !.nested_registers = ce.nested_registers,
                          !.pc = Len(ce.fnc.definition) + 1])
  /\ LowerIdle

CompileInto ==
  /\ low.pc = 0 /\ low.exp.kind = "Expr" /\ low.exp.into
  /\ Bind(compile_into(low.fnc, low.exp.expr, Unwrap(low.target_register)), LAMBDA fnc :
       low' = [low EXCEPT !.fnc = fnc, !.pc = Len(fnc.definition) + 1])
  /\ LowerIdle

\* The caller of compile uses the compiled expression it holds (use_), when the
\* lines are through
UseCompiled ==
  /\ low.pc = Len(low.fnc.definition) + 1
  /\ low.nested_registers # <<>>
  /\ low' = [low EXCEPT !.fnc = use_(low.fnc, [nested_registers |-> low.nested_registers]),
                        !.nested_registers = <<>>]
  /\ LowerIdle

\* The lines run
Executing(ops) ==
  /\ low.pc \in 1..Len(low.fnc.definition)
  /\ low.fnc.definition[low.pc][1] \in ops
Instr == low.fnc.definition[low.pc]
ValueOf(operand) == IF IsRegister(operand) THEN low.registers[operand[2]] ELSE operand
WriteRegister(reg, v) ==
  low' = [low EXCEPT !.registers[reg] = v, !.pc = @ + 1, !.trace = Append(@, low.pc)]

\* operations::op_submov on an object and a string key
op_submov(target, subscript, value) ==
  IF Tag(target) = "Object"
  THEN VObject(MapInsert(target[2], KeyToString(subscript), value), target[3], target[4])
  ELSE target

RunSub ==
  /\ Executing({"sub"})
  /\ WriteRegister(Instr[4], ValSub(ValueOf(Instr[2]), ValueOf(Instr[3])))
  /\ LowerIdle

RunSubMov ==
  /\ Executing({"submov"})
  /\ WriteRegister(Instr[4], op_submov(low.registers[Instr[4]], ValueOf(Instr[2]), ValueOf(Instr[3])))
  /\ LowerIdle

\* OpInc, OpDec on a number
RunUpdateOp ==
  /\ Executing({"op++", "op--"})
  /\ WriteRegister(Instr[2], IF Instr[1] = "op++"
                       THEN op_plus(low.registers[Instr[2]], VNumber(1))
                       ELSE op_plus(low.registers[Instr[2]], VNumber(-1)))
  /\ LowerIdle

RunBinaryOp ==
  /\ Executing({"op+"})
  /\ WriteRegister(Instr[4], op_plus(ValueOf(Instr[2]), ValueOf(Instr[3])))
  /\ LowerIdle

\* operations::op_and, op_or and op_nullish_coalesce
op_and(left, right) == IF IsTruthy(left) THEN right ELSE left
op_or(left, right) == IF IsTruthy(left) THEN left ELSE right
op_nullish_coalesce(left, right) ==
  IF Tag(left) \in {"Undefined", "Null"} THEN right ELSE left

RunLogicalOp ==
  /\ Executing({"op&&", "op||", "op??"})
  /\ WriteRegister(Instr[4],
                   CASE Instr[1] = "op&&" -> op_and(ValueOf(Instr[2]), ValueOf(Instr[3]))
                     [] Instr[1] = "op||" -> op_or(ValueOf(Instr[2]), ValueOf(Instr[3]))
                     [] Instr[1] = "op??" -> op_nullish_coalesce(ValueOf(Instr[2]), ValueOf(Instr[3])))
  /\ LowerIdle

RunMov ==
  /\ Executing({"mov"})
  /\ WriteRegister(Instr[3], ValueOf(Instr[2]))
  /\ LowerIdle

\* operations::op_triple_ne on values that are no NaN
RunTripleNe ==
  /\ Executing({"op!=="})
  /\ WriteRegister(Instr[4], VBool(ValueOf(Instr[2]) # ValueOf(Instr[3])))
  /\ LowerIdle

\* The line a label stands for
LabelAt(label) ==
  CHOOSE l \in 1..Len(low.fnc.definition) : low.fnc.definition[l] = <<"label", label>>

LowerJmpIf ==
  /\ Executing({"jmpif"})
  /\ low' = [low EXCEPT !.pc = IF IsTruthy(ValueOf(Instr[2])) THEN LabelAt(Instr[3]) ELSE @ + 1,
                        !.trace = Append(@, low.pc)]
  /\ LowerIdle

LowerLabel ==
  /\ Executing({"label"})
  /\ low' = [low EXCEPT !.pc = @ + 1, !.trace = Append(@, low.pc)]
  /\ LowerIdle

\* ConstSubCall of SymbolIterator on an iterable: its iterator, nothing given yet
RunConstSubCall ==
  /\ Executing({"constsubcall"})
  /\ Instr[3] = <<"Builtin", "SymbolIterator">>
  /\ Tag(ValueOf(Instr[2])) = "Iterable"
  /\ WriteRegister(Instr[5], <<"Iterator", ValueOf(Instr[2])[2], 0>>)
  /\ LowerIdle

LowerJmp ==
  /\ Executing({"jmp"})
  /\ low' = [low EXCEPT !.pc = LabelAt(Instr[2]), !.trace = Append(@, low.pc)]
  /\ LowerIdle

\* Next: the iterator's next is called with the iterator register as this, which
\* takes the advanced iterator, and the result goes to the result register
RunNext ==
  /\ Executing({"next"})
  /\ Bind(low.registers[Instr[2]], LAMBDA iter :
       low' = [low EXCEPT !.registers =
                            [@ EXCEPT ![Instr[2]] = <<"Iterator", iter[2], iter[3] + 1>>,
                                      ![Instr[3]] = IF iter[3] < Len(iter[2]) THEN iter[2][iter[3] + 1]
                                                    ELSE IterResObject(VUndefined, TRUE)],
                          !.pc = @ + 1, !.trace = Append(@, low.pc)])
  /\ LowerIdle

RunUnpackIterRes ==
  /\ Executing({"unpack_iter_res"})
  /\ low' = [low EXCEPT !.registers =
                          [@ EXCEPT ![Instr[3]] = ValSub(low.registers[Instr[2]], VString(ValueKey)),
                                    ![Instr[4]] = ValSub(low.registers[Instr[2]], VString(DoneKey))],
                        !.pc = @ + 1, !.trace = Append(@, low.pc)]
  /\ LowerIdle

\* Yield: the frame gives the value out (FrameStepOk::Yield) and goes on with the
\* next line when it is stepped again
RunYield ==
  /\ Executing({"yield"})
  /\ low' = [low EXCEPT !.yielded = Append(@, ValueOf(Instr[2])), !.pc = @ + 1,
                        !.trace = Append(@, low.pc)]
  /\ LowerIdle

NextLower ==
  \/ CompileLogical
  \/ RunLogicalOp
  \/ CompileExpression
  \/ CompileInto
  \/ UseCompiled
  \/ CompileYieldStar
  \/ RunConstSubCall
  \/ LowerJmp
  \/ RunNext
  \/ RunUnpackIterRes
  \/ RunYield
  \/ CompileUpdate
  \/ CompileCompound
  \/ CompilePattern
  \/ RunTripleNe
  \/ LowerJmpIf
  \/ LowerLabel
  \/ RunSub
  \/ RunSubMov
  \/ RunUpdateOp
  \/ RunBinaryOp
  \/ RunMov

SpecLower == InitLower /\ [][NextLower]_vars

-----------------------------------------------------------------------------
(* The write-back of a nested assignment (specification SpecLower) *)

Definition == low.fnc.definition
PathLen == Len(low.exp.path)
Finished == low.pc > Len(Definition)
LinesOf(ops) == {l \in 1..Len(Definition) : Definition[l][1] \in ops}

\* The keys of the path, and the member of a value at keys
KeyOf(prop) == IF prop[1] = "Computed" THEN low.before[prop[2]][2] ELSE prop[2]
PathKeys == [j \in 1..PathLen |-> KeyOf(low.exp.path[j])]
RECURSIVE MemberAt(_, _)
MemberAt(v, keys) ==
  IF Len(keys) = 0 THEN v
  ELSE MemberAt((CHOOSE e \in Range(v[2]) : e[1] = Head(keys))[2], Tail(keys))

\* v with the member at keys replaced
RECURSIVE Replaced(_, _, _)
Replaced(v, keys, new) ==
  IF Len(keys) = 0 THEN new
  ELSE VObject([e \in 1..Len(v[2]) |->
                  IF v[2][e][1] = Head(keys)
                  THEN <<Head(keys), Replaced(v[2][e][2], Tail(keys), new)>>
                  ELSE v[2][e]],
               v[3], v[4])

OldMember == MemberAt(low.before[low.exp.root], PathKeys)[2]
NewMember ==
  CASE low.exp.op = "op++" -> OldMember + 1
    [] low.exp.op = "op--" -> OldMember - 1
    [] low.exp.op = "op+" -> OldMember + low.exp.right[2]

\* C22: for an update or a compound assignment of root.p1. .. .pn the lines begin
\* with n sub lines, the first reading root and each next one reading the
\* temporary of the one before, each into a temporary of its own; the operation
\* is applied to the last temporary (to root when n = 0); the lines end with
\* exactly n submov lines that write the temporaries back, the innermost first
\* and the last one into root.  When the lines have run, root holds its old
\* value with that one member updated and no other variable is changed (the
\* target register alone takes the expression's value).
C22_NestedWriteBack ==
  (low.pc >= 1 /\ low.exp.kind \in {"Update", "Compound"}) =>
    /\ LinesOf({"sub"}) = 1..PathLen
    /\ LinesOf({"submov"}) = (Len(Definition) - PathLen + 1)..Len(Definition)
    /\ \A j \in 1..PathLen :
         /\ Definition[j][2] = Register(IF j = 1 THEN low.exp.root ELSE Definition[j - 1][4])
         /\ Definition[j][3] = Subscript(low.exp.path[j])
         /\ Definition[j][4] \in Temporaries
         /\ \A k \in 1..PathLen : k # j => Definition[k][4] # Definition[j][4]
         /\ Definition[Len(Definition) + 1 - j]
              = <<"submov", Definition[j][3], Register(Definition[j][4]), Definition[j][2][2]>>
    /\ \E l \in (PathLen + 1)..(Len(Definition) - PathLen) :
         /\ LinesOf({"op++", "op--", "op+"}) = {l}
         /\ Definition[l][1] = low.exp.op
         /\ Definition[l][IF low.exp.kind = "Update" THEN 2 ELSE 4]
              = (IF PathLen = 0 THEN low.exp.root ELSE Definition[PathLen][4])
    /\ Finished =>
         /\ low.registers[low.exp.root]
              = Replaced(low.before[low.exp.root], PathKeys, VNumber(NewMember))
         /\ \A v \in Variables \ {low.exp.root} :
              \/ low.registers[v] = low.before[v]
              \/ v = low.value /\ low.target_register = Some(v)
         /\ (low.exp.kind = "Update" /\ low.exp.prefix) => low.registers[low.value] = VNumber(NewMember)
         /\ (low.exp.kind = "Update" /\ ~low.exp.prefix) => low.registers[low.value] = VNumber(OldMember)
         /\ (low.exp.kind = "Compound" /\ ~low.exp.is_top_level) =>
              low.registers[low.value] = VNumber(NewMember)

\* C22 happens: a.x[i]++ with i = "y" has run: two sub lines, two submov lines, the
\* last into a, and a.x.y is one more than it was while a.x.x and a.y are kept
C22_Nested_Update_Ran ==
  /\ Finished
  /\ low.exp.kind = "Update" /\ low.exp.op = "op++" /\ ~low.exp.prefix
  /\ low.exp.path = <<<<"Ident", KeyX>>, <<"Computed", "i">>>>
  /\ low.before["i"] = VString(KeyY)
  /\ low.target_register = None
  /\ Definition = <<<<"sub", Register("a"), VString(KeyX), "_tmp0">>,
                    <<"sub", Register("_tmp0"), Register("i"), "_tmp1">>,
                    <<"mov", Register("_tmp1"), "_tmp2">>,
                    <<"op++", "_tmp1">>,
                    <<"submov", Register("i"), Register("_tmp1"), "_tmp0">>,
                    <<"submov", VString(KeyX), Register("_tmp0"), "a">>>>
  /\ ValSub(ValSub(low.registers["a"], VString(KeyX)), VString(KeyY)) = VNumber(6)
  /\ ValSub(ValSub(low.before["a"], VString(KeyX)), VString(KeyY)) = VNumber(5)
  /\ ValSub(low.registers["a"], VString(KeyY)) = ValSub(low.before["a"], VString(KeyY))

\* and a.y += 2 has run
C22_Compound_Ran ==
  /\ Finished
  /\ low.exp.kind = "Compound" /\ low.exp.path = <<<<"Ident", KeyY>>>>
  /\ ValSub(low.registers["a"], VString(KeyY)) = VNumber(5)
  /\ ValSub(low.before["a"], VString(KeyY)) = VNumber(3)


-----------------------------------------------------------------------------
(* The default of a pattern element (specification SpecLower) *)

\* What the pattern extracts from a, the lines of the initializer (between the
\* jmpif and its label), and the lines that have run
Extracted == ValSub(low.before["a"], low.exp.key)
InitializerLines ==
  {l \in 1..Len(Definition) :
     \E j \in LinesOf({"jmpif"}) : j < l /\ l < LabelAt(Definition[j][3])}
Ran == Range(low.trace)
InitializerValue ==
  IF low.exp.init[1] = "Lit" THEN low.exp.init[2] ELSE VNumber(low.before["i"][2] + 1)

\* C23: when the lines of a pattern element with a default have run, the
\* initializer's lines have all run and the element's register holds the
\* initializer's value if the extracted value is undefined (the member is missing
\* or is undefined); otherwise none of them has run, a variable the initializer
\* would change is unchanged, and the register holds the extracted value.
C23_DestructuringDefault ==
  (low.exp.kind = "Pattern" /\ Finished) =>
    /\ InitializerLines # {}
    /\ low.registers["a"] = low.before["a"]
    /\ IF Extracted = VUndefined
       THEN /\ InitializerLines \subseteq Ran
            /\ low.registers[low.exp.name] = InitializerValue
            /\ low.exp.init[1] = "Update" => low.registers["i"] = InitializerValue
       ELSE /\ InitializerLines \cap Ran = {}
            /\ low.registers[low.exp.name] = Extracted
            /\ low.registers["i"] = low.before["i"]

\* C23 happens: ({x: b = ++i} = a) has run with a.x null: b is null and i is kept
C23_Null_Keeps_Value ==
  /\ low.exp.kind = "Pattern" /\ Finished
  /\ low.exp.form = "KeyValue" /\ low.exp.init = <<"Update", "i">>
  /\ low.before["a"] = VObject(<<<<KeyX, VNull>>>>, <<>>, None)
  /\ low.registers["b"] = VNull
  /\ low.registers["i"] = VNumber(1)

\* and ([b = ++i] = a) has run with a[0] undefined: b and i are 2
C23_Undefined_Takes_Default ==
  /\ low.exp.kind = "Pattern" /\ Finished
  /\ low.exp.form = "Array" /\ low.exp.init = <<"Update", "i">>
  /\ low.before["a"] = VArray(<<VUndefined>>)
  /\ low.registers["b"] = VNumber(2)
  /\ low.registers["i"] = VNumber(2)


-----------------------------------------------------------------------------
(* The lowering of yield* (specification SpecLower) *)

\* The results the iterator of a gives, the first of them that is done (one past
\* the list when none is: the iterator is exhausted there), and its value
Results == low.before["a"][2]
FirstDone ==
  CHOOSE k \in 1..(Len(Results) + 1) :
    /\ k <= Len(Results) => ValSub(Results[k], VString(DoneKey)) = VBool(TRUE)
    /\ \A j \in 1..(k - 1) : ValSub(Results[j], VString(DoneKey)) = VBool(FALSE)
FinalValue ==
  IF FirstDone <= Len(Results) THEN ValSub(Results[FirstDone], VString(ValueKey)) ELSE VUndefined
ValuesBefore(k) == [j \in 1..(k - 1) |-> ValSub(Results[j], VString(ValueKey))]

\* C24: the lines of yield* a first take the iterator of a through SymbolIterator;
\* what they have yielded is at any time the values of the results given so far
\* that are not done, in order and once each (the last given may still wait for
\* its yield); when the lines have run, next has been called up to the first
\* result that is done and no further, every value before it has been yielded,
\* its own value has not, and the register of the expression holds its value.
C24_YieldStar ==
  (low.exp.kind = "YieldStar" /\ low.pc >= 1) =>
    /\ Definition[1][1] = "constsubcall"
    /\ Definition[1][3] = <<"Builtin", "SymbolIterator">>
    /\ low.pc > 1 =>
         Bind(low.registers[Definition[1][5]][3], LAMBDA given :
           /\ given <= FirstDone
           /\ low.yielded = ValuesBefore(given)
              \/ (given < FirstDone /\ low.yielded = ValuesBefore(given + 1))
           /\ Finished =>
                /\ given = FirstDone
                /\ low.yielded = ValuesBefore(FirstDone)
                /\ low.registers[low.value] = FinalValue)

\* C24 happens: yield* over results 11, 12, 13 of which the last is done has run:
\* 11 and 12 were yielded and the expression is 13
C24_Two_Yielded ==
  /\ low.exp.kind = "YieldStar" /\ Finished
  /\ Len(Results) = 3 /\ FirstDone = 3
  /\ low.yielded = <<VNumber(11), VNumber(12)>>
  /\ low.registers[low.value] = VNumber(13)
  /\ low.target_register = None

\* and yield* has left at a first result that is done with results behind it
C24_Left_At_First_Done ==
  /\ low.exp.kind = "YieldStar" /\ Finished
  /\ Len(Results) = 3 /\ FirstDone = 2
  /\ low.yielded = <<VNumber(11)>>
  /\ low.registers["_iter0"][3] = 2


-----------------------------------------------------------------------------
(* The temporaries of compiled expressions (specification SpecLower) *)

\* The temporaries in use: the registers in use that are no variable and none of
\* the registers yield* keeps
TemporariesInUse == low.fnc.used \ (Variables \cup {"_iter0", "_iter_res0", "_done0"})

C25_All_Released ==
  /\ low.exp.kind = "Expr"
  /\ low.exp.expr = <<"MethodCall", <<"Call", <<"Mutated", "b">>, <<>>>>,
                      <<"Computed", <<"Mutated", "b">>>>, <<<<FALSE, <<"Mutated", "b">>>>>>>>
  /\ low.target_register = None
  /\ low.pc >= 1
  /\ low.nested_registers = <<>>
  /\ low.fnc.used = Variables


-----------------------------------------------------------------------------
(* The result of new (specification Spec) *)

\* The class operand of the New at position pos, the instance it makes and its
\* destination operand, the last byte of the instruction
NewClass(f) == DecodeVal(bytecode, f.pos + 1, f.registers, {}, MaxDecodeDepth).val
NewInstance(f) == VObject(<<>>, <<>>, Some(NewClass(f)[3]))
NewTargets(after) ==
  IF ByteAt(bytecode, after.pos - 1) = IgnoreRegister THEN {} ELSE {ByteAt(bytecode, after.pos - 1)}

\* C26: a New on a class whose constructor is a bytecode function pushes the
\* constructor's frame with a mutable `this` that is an empty object with the
\* class's instance prototype; when the constructor returns, the destination
\* register holds its final `this` and no register takes its return value.  A New
\* on a class whose constructor is Void pushes no frame: the instruction is passed
\* with its parameters, and the destination register holds the empty object with
\* the class's instance prototype.  No other register of the caller changes.
C26_NewResult ==
  /\ (ev.op = New /\ Tag(NewClass(Top(ev.pre))) = "Class") =>
       IF NewClass(Top(ev.pre))[2] = VVoid
       THEN /\ ev.kind = "Continue"
            /\ Len(stack) = Len(ev.pre)
            /\ ByteAt(bytecode, Top(stack).pos - 2) = BtEnd
            /\ \A i \in 0..(Len(Top(stack).registers) - 1) :
                 Reg(Top(stack), i) = IF i \in NewTargets(Top(stack)) THEN NewInstance(Top(ev.pre))
                                      ELSE Reg(Top(ev.pre), i)
       ELSE /\ ev.kind = "Push"
            /\ Len(stack) = Len(ev.pre) + 1
            /\ Top(stack).pos = NewClass(Top(ev.pre))[2][5]
            /\ ~Top(stack).const_this
            /\ Reg(Top(stack), 1) = NewInstance(Top(ev.pre))
            /\ Top(Front(stack)).registers = Top(ev.pre).registers
  /\ Returned(New) =>
       /\ \A i \in NewTargets(CallerBefore) : Reg(CallerAfter, i) = FinalThis
       /\ OthersKept(NewTargets(CallerBefore))

\* C26 happens: a constructor that made its parameter its `this` and returned 7 has
\* returned to a New with destination %4: %4 holds the parameter and nothing holds 7
C26_Constructed ==
  /\ Returned(New)
  /\ NewTargets(CallerBefore) = {4}
  /\ FinalThis = Reg(CallerBefore, 2)
  /\ ReturnValue = VNumber(7)
  /\ Reg(CallerAfter, 4) = FinalThis
  /\ \A i \in 0..(Len(CallerAfter.registers) - 1) : Reg(CallerAfter, i) # VNumber(7)

\* a constructor that left `this` alone has returned: %4 holds the empty object
\* with the prototype {m: 1}
C26_Instance_Kept ==
  /\ Returned(New)
  /\ Reg(CallerAfter, 4) = VObject(<<>>, <<>>, Some(VObject(<<<<(<<109>>), VNumber(1)>>>>, <<>>, None)))

\* and a New on a class without a constructor has written the empty object
C26_No_Constructor ==
  /\ ev.op = New /\ ev.kind = "Continue"
  /\ Reg(Top(stack), 4) = VObject(<<>>, <<>>, Some(VObject(<<<<(<<109>>), VNumber(1)>>>>, <<>>, None)))


-----------------------------------------------------------------------------
(* The receiver of a method call that throws (specification Spec) *)

\* An exception thrown by a frame has been caught by the frame that called it
CaughtByCaller ==
  /\ ev.kind = "Err" /\ status = "running"
  /\ Len(stack) = Len(ev.pre) - 1

\* C27: when a method called on the receiver in register %3 throws and the calling
\* frame catches the exception, %3 holds the value it held immediately before the
\* call (of which %6 holds a copy) when the handler starts.
C27_ReceiverSurvives ==
  (bytecode \in CaughtPrograms /\ CaughtByCaller) => Reg(Top(stack), 3) = Reg(Top(stack), 6)

\* What is reached instead: the handler starts with the receiver register Void,
\* the exception in %5 and the copy in %6 still the object
C27_Receiver_Void ==
  /\ bytecode \in CaughtPrograms /\ CaughtByCaller
  /\ Top(stack).pos = Unwrap(Top(Front(ev.pre)).catch_setting).pos
  /\ Reg(Top(stack), 3) = VVoid
  /\ Reg(Top(stack), 5) = VNumber(5)
  /\ Tag(Reg(Top(stack), 6)) = "Object"

\* When the method returns instead, the receiver register holds the method's
\* final `this`, here the receiver unchanged
C27_Returned_Receiver ==
  (bytecode \in CaughtPrograms /\ ReturnedSubCall) => Reg(CallerAfter, 3) = Reg(CallerAfter, 6)


-----------------------------------------------------------------------------
(* The errors of operators and their destination (specification Spec) *)

\* The operands and destination of the instruction the last step ran
LastOperands == DecodeTwoAndDst(bytecode, [Top(ev.pre) EXCEPT !.pos = @ + 1], {})
OperandsThrow ==
  /\ ev.op \in {OpPlus, Sub}
  /\ OpThrows(ev.op, LastOperands.left, LastOperands.right)

\* C28: an OpPlus or Sub whose operands make the operation throw gives the
\* exception, whatever its destination operand is.
C28_ErrorsWhateverDestination ==
  OperandsThrow => (ev.kind = "Err" /\ ev.exc = OpError(ev.op))

\* With a register as destination it does
C28_ErrorsIntoRegister ==
  (OperandsThrow /\ IsSome(LastOperands.dst)) => (ev.kind = "Err" /\ ev.exc = OpError(ev.op))

\* What is reached instead: 1n + p with the ignore register as destination is
\* passed without an exception, and the function goes on to return 7
C28_Ignored_Passes ==
  /\ OperandsThrow /\ ev.op = OpPlus
  /\ LastOperands.dst = None
  /\ ev.kind = "Continue" /\ status = "running"
  /\ Top(stack).pos = LastOperands.pos
  /\ Top(stack).registers = Top(ev.pre).registers

\* and 1n + p with a register as destination has thrown
C28_Register_Throws ==
  /\ OperandsThrow /\ ev.op = OpPlus
  /\ LastOperands.dst = Some(3)
  /\ ev.kind = "Err" /\ status = "err"
  /\ result = TypeError("Cannot mix BigInt with other types")


-----------------------------------------------------------------------------
(* The right side of a logical operator (specification SpecLower) *)

\* The left side decides the result: it is falsy for &&, truthy for ||, neither
\* null nor undefined for ??
Decides(op, left) ==
  CASE op = "LogicalAnd" -> ~IsTruthy(left)
    [] op = "LogicalOr" -> IsTruthy(left)
    [] op = "NullishCoalescing" -> Tag(left) \notin {"Undefined", "Null"}

\* The lines of a && ++i, a || ++i or a ?? ++i are through
LogicalRan == low.exp.kind = "Logical" /\ low.pc = Len(low.fnc.definition) + 1

\* C29: when the lines compiled for a && ++i, a || ++i or a ?? ++i have run and the
\* value of a decided the result, the lines of the right side have not run: i
\* holds what it held before.
C29_ShortCircuit ==
  (LogicalRan /\ Decides(low.exp.expr[4], low.before["a"])) =>
     low.registers["i"] = low.before["i"]

\* What is reached instead: false && ++i has run, the result is false and i went
\* from 3 to 4
C29_Right_Side_Ran ==
  /\ LogicalRan
  /\ low.exp.expr[4] = "LogicalAnd" /\ low.before["a"] = VBool(FALSE)
  /\ low.fnc.definition = <<<<"op++", "i">>, <<"op&&", Register("a"), Register("i"), "_tmp0">>>>
  /\ low.trace = <<1, 2>>
  /\ low.registers["_tmp0"] = VBool(FALSE)
  /\ low.before["i"] = VNumber(3) /\ low.registers["i"] = VNumber(4)

\* The value of the result is that of the operator, whether the left side decided
\* it or not
C29_ResultValue ==
  LogicalRan =>
    low.registers[low.value] =
      IF Decides(low.exp.expr[4], low.before["a"]) THEN low.before["a"] ELSE low.registers["i"]


-----------------------------------------------------------------------------
(* The end of a decode (specification SpecDecoder) *)

\* The positions of the byte array that hold the tag of a pointer with a target
\* before it
BackwardPointers ==
  {i \in 0..(Len(bytecode) - 3) :
     ByteAt(bytecode, i) = BtPointer /\ DecodePos(bytecode, i + 1).val < i + 1}

\* Each of them has a Function, a GeneratorFunction, a Class or an unrecognized
\* tag at its target
BackwardTargetsOk ==
  \A i \in BackwardPointers : BackwardOk(bytecode, DecodePos(bytecode, i + 1).val)

\* The decode recorded last did not come to an end: decode_pointer was entered
\* for a target whose decode was under way
Unbounded == dec.n > 0 /\ dec.last.res.panic = "unbounded recursion"

\* C30: in a byte array in which every pointer that points backwards has a
\* Function, a GeneratorFunction, a Class or an unrecognized tag at its target,
\* every decode_val comes to an end.
C30_DecoderTerminates == BackwardTargetsOk => ~Unbounded

\* What is reached instead: two classes, each the constructor of the other; the
\* decode of a pointer to the first does not end
C30_Class_Cycle ==
  /\ BackwardTargetsOk
  /\ Unbounded
  /\ dec.last.target = 0
  /\ PeekType(bytecode, 0) = BtClass
  /\ PeekType(bytecode, DecodePos(bytecode, 2).val) = BtClass
  /\ DecodePos(bytecode, 2).val > 0
  /\ DecodePos(bytecode, DecodePos(bytecode, 2).val + 2).val = 0

\* The decode of a pointer to a pointer, a chain of three pointers to an array
\* included, comes to an end, as does every decode in a byte array without a class
\* that points to a class
C30_ChainsTerminate ==
  (\/ PeekType(bytecode, 0) # BtClass
   \/ (dec.n > 0 /\ PeekType(bytecode, dec.last.target) = BtPointer)) => ~Unbounded

\* The chain of three pointers has been decoded: the array came back
C30_Chain_Decoded ==
  /\ dec.n > 0 /\ dec.last.res.panic = ""
  /\ PeekType(bytecode, 0) = BtClass
  /\ dec.last.site = dec.sites[2]
  /\ Tag(dec.last.res.val) = "Array"
  /\ Cardinality(cache) >= 3

\* and a class whose constructor is a pointer to a class that points to nothing
C30_Class_Pair_Decoded ==
  /\ dec.n > 0 /\ dec.last.res.panic = ""
  /\ dec.last.target = 0
  /\ Tag(dec.last.res.val) = "Class"
  /\ Tag(dec.last.res.val[2]) = "Class"


=============================================================================
